---- MODULE Spec2Model ----
(***************************************************************************)
(* A model of the asyncpg-vs-psycopg2 benchmark repository:                *)
(*   - the two routers (src/api/async_api/router.py and                    *)
(*     src/api/sync_api/router.py): the /benchmark/concurrent,             *)
(*     /benchmark/mixed, /benchmark, /benchmark/parallel and               *)
(*     /benchmark/complex endpoints and the /users and /products CRUD      *)
(*     endpoints;                                                          *)
(*   - the benchmark driver (src/benchmark_test.py): the sequential        *)
(*     drivers, run_advanced_benchmarks, the two comparators               *)
(*     (generate_report, analyze_advanced_results),                        *)
(*     generate_advanced_report and main.                                  *)
(* Floating-point throughputs are modelled as exact rationals; float("inf")*)
(* is a value of its own.  Each part of the program has its own            *)
(* specification (SpecConcurrent and, with fairness, SpecConcurrentFair;   *)
(* SpecCrud, SpecUpdateDelete, SpecMixed, SpecMixedAlone, SpecEndpoint,    *)
(* SpecBenchmark, SpecDriver, SpecAnalyze, SpecCompare); the variables of  *)
(* the other parts stay at their idle value.  The sessions and the         *)
(* connection pool (src/db/async_db.py, src/db/sync_db.py) are modelled    *)
(* for /benchmark/concurrent.                                              *)
(***************************************************************************)
EXTENDS Integers, Sequences, FiniteSets, TLC

VARIABLES
    \* ---- /benchmark/concurrent (both routers) ----
    cc_pc,          \* "idle" | "spawning" | "joining" | "done" | "failed"
    cc_subject,     \* "async" | "sync": which router serves the request
    cc_count,       \* query parameter count
    cc_concurrency, \* query parameter concurrency
    cc_workers,     \* task id -> [st, iters, task_operations, task_db, conn]
    cc_sessions,    \* the sessions of the request: [used_by, open], db first
    cc_results,     \* the results list (sync: shared list; async: gather's list)
    cc_response,    \* the JSON body of a success response
    \* ---- /users and /products (both routers, one database) ----
    db_users,       \* the users table: id -> [username, email]
    db_products,    \* the products table: id -> [sku]
    db_user_seq,    \* next value of users.id's sequence
    db_product_seq, \* next value of products.id's sequence
    crud_pending,   \* router -> the create request between its SELECT and its commit
    crud_last,      \* the request served last and its outcome
    \* ---- the benchmark script (src/benchmark_test.py) ----
    py_call,        \* the function the script was started with
    server_ops,     \* subject -> the operations_per_second its server can answer
    gr_pc,          \* generate_report on its own: "idle" | "ready" | "returned"
    gr_async_analysis, \* its argument async_analysis
    gr_sync_analysis,  \* its argument sync_analysis
    gr_report,      \* its return value
    adv_pc,         \* "idle" | "async" | "sync" | "collected" | "analyzed" |
                    \* "reported" | "raised"
    adv_i,          \* the configuration run_advanced_benchmarks is at
    adv_results,    \* results of run_advanced_benchmarks
    adv_analysis,   \* advanced_analysis
    adv_report,     \* advanced_report
    m_pc,           \* the statement main is at
    drv,            \* the sequential driver main is running
    m_results,      \* driver -> the results it returned
    m_reports,      \* "standard" | "mixed" -> the report of generate_report
    report_file,    \* benchmark_report.json
    \* ---- the comparators applied to one pair of throughputs ----
    cmp_async_ops,  \* the async-side mean throughput A
    cmp_sync_ops,   \* the sync-side mean throughput B
    cmp_report,     \* generate_report's comparison entry for (A, B)
    cmp_analysis,   \* analyze_advanced_results' entry for (A, B)
    cmp_report_swapped,  \* generate_report's entry with the roles swapped
    cmp_analysis_swapped, \* analyze_advanced_results' entry, roles swapped
    \* ---- /benchmark/mixed (both routers, on the database above) ----
    mx_pc,          \* "idle" | "running" | "done" | "failed"
    mx_subject,     \* which router serves the request
    mx_count,       \* query parameter count
    mx_i,           \* the loop variable i: the iterations completed
    mx_step,        \* "user" | "product": the sub-operation iteration i is at
    mx_operations,  \* the local counter operations
    mx_log,         \* per iteration started: its branch and what it touched
    mx_response,    \* the JSON body of the response
    \* ---- /benchmark, /benchmark/parallel, /benchmark/complex ----
    ep_pc,          \* "idle" | "loop" | "batch" | "done" | "failed"
    ep_kind,        \* "benchmark" | "parallel" | "complex"
    ep_subject,     \* which router serves the request
    ep_count,       \* query parameter count
    ep_i,           \* the iterations completed
    ep_operations,  \* the local counter operations
    ep_queries,     \* parallel: the four queries of the batch in flight
    ep_response,    \* the JSON body of the response
    \* ---- analyze_results on its own ----
    an_results,     \* its argument results: one list of samples per count
    an_analysis,    \* its return value
    \* ---- a sequential driver (run_async_tests, ...) on its own ----
    dr_pc,          \* "idle" | "loop" | "awaiting" | "returned" | "raised"
    dr_name,        \* the driver called
    dr_counts,      \* its argument counts
    dr_iterations,  \* its argument iterations
    dr_k,           \* the position of `for count in counts` (from 1)
    dr_j,           \* the position of `for _ in range(iterations)`
    dr_sent,        \* the requests issued so far, in order: [url, count]
    dr_in_flight,   \* the requests issued and not answered yet
    dr_count_results, \* the list count_results
    dr_results      \* the list results

cc_vars == <<cc_pc, cc_subject, cc_count, cc_concurrency, cc_workers,
             cc_sessions, cc_results, cc_response>>

crud_vars == <<db_users, db_products, db_user_seq, db_product_seq,
               crud_pending, crud_last>>

bm_vars == <<py_call, server_ops, gr_pc, gr_async_analysis, gr_sync_analysis,
             gr_report, adv_pc, adv_i, adv_results, adv_analysis, adv_report,
             m_pc, drv, m_results, m_reports, report_file>>

cmp_vars == <<cmp_async_ops, cmp_sync_ops, cmp_report, cmp_analysis,
              cmp_report_swapped, cmp_analysis_swapped>>

mx_vars == <<mx_pc, mx_subject, mx_count, mx_i, mx_step, mx_operations,
             mx_log, mx_response>>

ep_vars == <<ep_pc, ep_kind, ep_subject, ep_count, ep_i, ep_operations,
             ep_queries, ep_response>>

an_vars == <<an_results, an_analysis>>

dr_vars == <<dr_pc, dr_name, dr_counts, dr_iterations, dr_k, dr_j, dr_sent,
             dr_in_flight, dr_count_results, dr_results>>

vars == <<cc_vars, crud_vars, bm_vars, cmp_vars, mx_vars, ep_vars, an_vars,
          dr_vars>>

\* What a step of one part of the program leaves alone.
OnlyConcurrent ==
    UNCHANGED <<crud_vars, bm_vars, cmp_vars, mx_vars, ep_vars, an_vars, dr_vars>>
OnlyCrud ==
    UNCHANGED <<cc_vars, bm_vars, cmp_vars, mx_vars, ep_vars, an_vars, dr_vars>>
OnlyBenchmark ==
    UNCHANGED <<cc_vars, crud_vars, cmp_vars, mx_vars, ep_vars, an_vars, dr_vars>>
OnlyCompare ==
    UNCHANGED <<cc_vars, crud_vars, bm_vars, mx_vars, ep_vars, an_vars, dr_vars>>
\* The mixed benchmark also writes the tables and the sequences.
OnlyMixed ==
    UNCHANGED <<cc_vars, crud_pending, crud_last, bm_vars, cmp_vars, ep_vars, an_vars,
                dr_vars>>
OnlyAnalyze ==
    UNCHANGED <<cc_vars, crud_vars, bm_vars, cmp_vars, mx_vars, ep_vars, dr_vars>>
OnlyDriver ==
    UNCHANGED <<cc_vars, crud_vars, bm_vars, cmp_vars, mx_vars, ep_vars, an_vars>>
OnlyEndpoint ==
    UNCHANGED <<cc_vars, crud_vars, bm_vars, cmp_vars, mx_vars, an_vars, dr_vars>>

(***************************************************************************)
(* Bounds of the model.                                                    *)
(***************************************************************************)
MaxCount == 4
MaxConc == 2
\* The ids the two sequences hand out in a run.
MaxId == 2

Subjects == {"async", "sync"}

\* Query parameters are plain ints: FastAPI accepts any integer, so the
\* inputs include concurrency <= 0 and a negative count.
CountInputs == -1 .. MaxCount
ConcurrencyInputs == -1 .. MaxConc

\* range(n) of Python: empty when n <= 0.
range(n) == 0 .. (n - 1)

RECURSIVE sum(_)
sum(s) == IF s = <<>> THEN 0 ELSE Head(s) + sum(Tail(s))

\* No comparison made yet.
NotCompared == [faster |-> "none"]

cmp_Idle ==
    /\ cmp_async_ops = 0
    /\ cmp_sync_ops = 0
    /\ cmp_report = NotCompared
    /\ cmp_analysis = NotCompared
    /\ cmp_report_swapped = NotCompared
    /\ cmp_analysis_swapped = NotCompared

\* No response built yet.
NoBody == [status |-> 0]

mx_Idle ==
    /\ mx_pc = "idle"
    /\ mx_subject = "async"
    /\ mx_count = 0
    /\ mx_i = 0
    /\ mx_step = "user"
    /\ mx_operations = 0
    /\ mx_log = <<>>
    /\ mx_response = NoBody

\* The four queries of a parallel batch.
QueryNames == {"query_users", "query_products", "query_users_with_filter",
               "query_products_with_join"}

ep_Idle ==
    /\ ep_pc = "idle"
    /\ ep_kind = "benchmark"
    /\ ep_subject = "async"
    /\ ep_count = 0
    /\ ep_i = 0
    /\ ep_operations = 0
    /\ ep_queries = [q \in QueryNames |-> "none"]
    /\ ep_response = NoBody

\* analyze_results not called.
NotAnalyzed == <<[count |-> -1]>>

an_Idle ==
    /\ an_results = <<>>
    /\ an_analysis = NotAnalyzed

\* No sequential driver called on its own.
dr_Idle ==
    /\ dr_pc = "idle"
    /\ dr_name = "run_async_tests"
    /\ dr_counts = <<>>
    /\ dr_iterations = 0
    /\ dr_k = 0
    /\ dr_j = 0
    /\ dr_sent = <<>>
    /\ dr_in_flight = {}
    /\ dr_count_results = <<>>
    /\ dr_results = <<>>

(***************************************************************************)
(* /benchmark/concurrent                                                   *)
(***************************************************************************)
NoWorker == [st |-> "none", iters |-> 0, task_operations |-> 0,
             task_db |-> 0, conn |-> 0]
NoResponse == [status |-> 0, operations |-> 0, concurrency |-> 0]

WorkerIds == range(MaxConc)

\* pool_size + max_overflow: the connections the engine's pool hands out at
\* one time (5 + 20 in db/async_db.py and db/sync_db.py), scaled down so
\* that a request can ask for more workers than the pool has connections.
PoolCapacity == 1

cc_Idle ==
    /\ cc_pc = "idle"
    /\ cc_subject = "async"
    /\ cc_count = 0
    /\ cc_concurrency = 0
    /\ cc_workers = [w \in WorkerIds |-> NoWorker]
    /\ cc_sessions = <<>>
    /\ cc_results = <<>>
    /\ cc_response = NoResponse

\* A share that hands the remainder out (the "fix" the truncation invites).
SharePerTask_Ceil(count, concurrency) == (count + concurrency - 1) \div concurrency

\* for i in range(count // concurrency): the iterations one db_task runs.
\* Only evaluated inside db_task, i.e. when concurrency >= 1.
SharePerTask(count, concurrency) == count \div concurrency

Started(w) == cc_workers[w].st # "none"
\* A join that is satisfied by a worker that merely started.
Terminated_Started(w) == cc_workers[w].st # "none"
Terminated(w) == cc_workers[w].st \in {"done", "failed"}

\* A session object as the session factory constructs it: no connection yet
\* (the pool is asked at the first statement), used by nobody.
NewSession == [used_by |-> {}, open |-> TRUE]
\* The request-scoped session db = Depends(get_db) / Depends(get_db_sync) is
\* the first session of the request.
RequestSession == 1
\* A factory that hands every caller the request-scoped session.
SessionLocal_Shared(sessions, k) == RequestSession
\* async_session() / SessionLocal(): the k-th call after `sessions` were
\* constructed returns a session object of its own.
SessionLocal(sessions, k) == Len(sessions) + k
\* n calls of the factory.
Constructed(sessions, n) == sessions \o [k \in 1 .. n |-> NewSession]
\* A statement of worker w is executed on session s.
Executed(sessions, s, w) == [sessions EXCEPT ![s].used_by = @ \cup {w}]
\* async with ... / finally: thread_db.close().
Closed(sessions, s) == [sessions EXCEPT ![s].open = FALSE]

RECURSIVE held(_)
\* The connections the sessions of workers 0 .. n - 1 hold.
held(n) == IF n <= 0 THEN 0 ELSE cc_workers[n - 1].conn + held(n - 1)
\* The pool's checked-out connections.
checkedout == held(MaxConc)
\* A session that takes a connection from the pool for every statement and
\* keeps them all.
checkout_PerStatement(conn) == 1
\* The connections a statement takes from the pool: the first statement of
\* a session takes one, and the session keeps it for its later statements
\* until it is closed.
checkout(conn) == IF conn = 0 THEN 1 ELSE 0
\* The pool can serve the next statement of worker w.
HasConnection(w) == checkedout + checkout(cc_workers[w].conn) <= PoolCapacity
\* Worker w is inside the pool's get(): it has a statement to execute and
\* the pool has no connection to hand out.
Waiting(w) ==
    /\ cc_workers[w].st = "running"
    /\ cc_workers[w].iters < SharePerTask(cc_count, cc_concurrency)
    /\ ~HasConnection(w)

\* The request arrives: the dependency constructs the request-scoped session,
\* start_time is taken, results = [] (sync).
benchmark_concurrent(subject, count, concurrency) ==
    /\ cc_pc = "idle"
    /\ cc_pc' = "spawning"
    /\ cc_subject' = subject
    /\ cc_count' = count
    /\ cc_concurrency' = concurrency
    /\ cc_sessions' = Constructed(cc_sessions, 1)
    /\ UNCHANGED <<cc_workers, cc_results, cc_response>>
    /\ OnlyConcurrent

\* async: tasks = [db_task(i) for i in range(concurrency)]; gather schedules
\* every task at once, and every task runs up to its first await: it has
\* entered async with async_session() as task_db.
async_gather_start ==
    /\ cc_pc = "spawning"
    /\ cc_subject = "async"
    /\ cc_workers' = [w \in WorkerIds |->
                        IF w \in range(cc_concurrency)
                        THEN [NoWorker EXCEPT
                                !.st = "running",
                                !.task_db = SessionLocal(cc_sessions, w + 1)]
                        ELSE cc_workers[w]]
    /\ cc_sessions' = Constructed(cc_sessions, Cardinality(range(cc_concurrency)))
    /\ cc_pc' = "joining"
    /\ UNCHANGED <<cc_subject, cc_count, cc_concurrency, cc_results, cc_response>>
    /\ OnlyConcurrent

\* sync: for i in range(concurrency): thread = Thread(...); thread.start().
\* One thread per step; the threads already started run meanwhile.  The
\* thread's first statement is thread_db = SessionLocal().
sync_thread_start ==
    /\ cc_pc = "spawning"
    /\ cc_subject = "sync"
    /\ \E w \in range(cc_concurrency) :
          /\ ~Started(w)
          /\ \A v \in range(cc_concurrency) : v < w => Started(v)
          /\ cc_workers' = [cc_workers EXCEPT
                              ![w] = [NoWorker EXCEPT
                                        !.st = "running",
                                        !.task_db = SessionLocal(cc_sessions, 1)]]
    /\ cc_sessions' = Constructed(cc_sessions, 1)
    /\ UNCHANGED <<cc_pc, cc_subject, cc_count, cc_concurrency, cc_results, cc_response>>
    /\ OnlyConcurrent

\* sync: the spawn loop is over (also at once when range(concurrency) is empty).
sync_spawn_done ==
    /\ cc_pc = "spawning"
    /\ cc_subject = "sync"
    /\ \A w \in range(cc_concurrency) : Started(w)
    /\ cc_pc' = "joining"
    /\ UNCHANGED <<cc_subject, cc_count, cc_concurrency, cc_workers, cc_sessions,
                   cc_results, cc_response>>
    /\ OnlyConcurrent

\* One iteration of db_task's loop: two SELECTs (task_operations += 2) and
\* the outer join (task_operations += 1), all on the worker's session; the
\* first of them checks a connection out of the pool.
db_task_iteration(w) ==
    /\ cc_workers[w].st = "running"
    /\ cc_workers[w].iters < SharePerTask(cc_count, cc_concurrency)
    /\ HasConnection(w)
    /\ cc_workers' = [cc_workers EXCEPT
                        ![w].iters = @ + 1,
                        ![w].task_operations = @ + 3,
                        ![w].conn = @ + checkout(@)]
    /\ cc_sessions' = Executed(cc_sessions, cc_workers[w].task_db, w)
    /\ UNCHANGED <<cc_pc, cc_subject, cc_count, cc_concurrency, cc_results, cc_response>>
    /\ OnlyConcurrent

\* A query of db_task raises: the session is closed (async with / finally),
\* its connection goes back to the pool, and the exception leaves db_task.
\* sync: the thread dies and appends nothing.  async: the exception reaches
\* gather.
db_task_raises(w) ==
    /\ cc_workers[w].st = "running"
    /\ cc_workers[w].iters < SharePerTask(cc_count, cc_concurrency)
    /\ HasConnection(w)
    /\ cc_workers' = [cc_workers EXCEPT ![w].st = "failed", ![w].conn = 0]
    /\ cc_sessions' = Closed(Executed(cc_sessions, cc_workers[w].task_db, w),
                             cc_workers[w].task_db)
    /\ UNCHANGED <<cc_pc, cc_subject, cc_count, cc_concurrency, cc_results, cc_response>>
    /\ OnlyConcurrent

\* pool_timeout = 60: a worker that has waited that long for a connection
\* gets the pool's TimeoutError instead; it leaves db_task like any other
\* exception.
db_task_pool_timeout(w) ==
    /\ Waiting(w)
    /\ cc_workers' = [cc_workers EXCEPT ![w].st = "failed", ![w].conn = 0]
    /\ cc_sessions' = Closed(cc_sessions, cc_workers[w].task_db)
    /\ UNCHANGED <<cc_pc, cc_subject, cc_count, cc_concurrency, cc_results, cc_response>>
    /\ OnlyConcurrent

\* The loop is over: the session is closed, its connection goes back to the
\* pool, and db_task returns task_operations.  async: the task is done.
\* sync: the thread still has its results.append to do.
db_task_return(w) ==
    /\ cc_workers[w].st = "running"
    /\ ~(cc_workers[w].iters < SharePerTask(cc_count, cc_concurrency))
    /\ cc_workers' = [cc_workers EXCEPT
                        ![w].st = IF cc_subject = "sync" THEN "returned" ELSE "done",
                        ![w].conn = 0]
    /\ cc_sessions' = Closed(cc_sessions, cc_workers[w].task_db)
    /\ UNCHANGED <<cc_pc, cc_subject, cc_count, cc_concurrency, cc_results, cc_response>>
    /\ OnlyConcurrent

\* An append that runs while the worker is still in its loop.
results_append_ready_Early(w) == cc_workers[w].st \in {"running", "returned"}
\* sync: the thread's target is lambda: results.append(db_task(i)); the
\* append runs once db_task has returned.
results_append_ready(w) == cc_workers[w].st = "returned"

\* sync: results.append(<the value db_task returned>); the thread ends.
results_append(w) ==
    /\ cc_subject = "sync"
    /\ results_append_ready(w)
    /\ cc_results' = Append(cc_results, cc_workers[w].task_operations)
    /\ cc_workers' = [cc_workers EXCEPT ![w].st = "done"]
    /\ UNCHANGED <<cc_pc, cc_subject, cc_count, cc_concurrency, cc_sessions,
                   cc_response>>
    /\ OnlyConcurrent

RECURSIVE gathered(_)
\* asyncio.gather's result list: the tasks' return values in task order.
gathered(n) == IF n <= 0 THEN <<>>
               ELSE Append(gathered(n - 1), cc_workers[n - 1].task_operations)

\* async: results = await asyncio.gather(*tasks) returns once every task
\* has returned; then total_operations = sum(results) and the response.
async_gather_return ==
    /\ cc_pc = "joining"
    /\ cc_subject = "async"
    /\ \A w \in range(cc_concurrency) : cc_workers[w].st = "done"
    /\ cc_results' = gathered(cc_concurrency)
    /\ cc_response' = [status |-> 200,
                       operations |-> sum(gathered(cc_concurrency)),
                       concurrency |-> cc_concurrency]
    /\ cc_pc' = "done"
    /\ UNCHANGED <<cc_subject, cc_count, cc_concurrency, cc_workers, cc_sessions>>
    /\ OnlyConcurrent

\* async: gather re-raises the first exception of a task; the handler has no
\* except clause, so the request ends as a server error.  The other tasks
\* are not cancelled and run on.
async_gather_raises ==
    /\ cc_pc = "joining"
    /\ cc_subject = "async"
    /\ \E w \in range(cc_concurrency) : cc_workers[w].st = "failed"
    /\ cc_pc' = "failed"
    /\ UNCHANGED <<cc_subject, cc_count, cc_concurrency, cc_workers, cc_sessions,
                   cc_results, cc_response>>
    /\ OnlyConcurrent

\* sync: for thread in threads: thread.join(); a thread that died of an
\* exception joins like any other.  Then total_operations = sum(results).
sync_join_return ==
    /\ cc_pc = "joining"
    /\ cc_subject = "sync"
    /\ \A w \in range(cc_concurrency) : Terminated(w)
    /\ cc_response' = [status |-> 200,
                       operations |-> sum(cc_results),
                       concurrency |-> cc_concurrency]
    /\ cc_pc' = "done"
    /\ UNCHANGED <<cc_subject, cc_count, cc_concurrency, cc_workers, cc_sessions,
                   cc_results>>
    /\ OnlyConcurrent

ConcurrentNext ==
    \/ \E s \in Subjects, c \in CountInputs, k \in ConcurrencyInputs :
          benchmark_concurrent(s, c, k)
    \/ async_gather_start
    \/ sync_thread_start
    \/ sync_spawn_done
    \/ \E w \in WorkerIds : db_task_iteration(w)
    \/ \E w \in WorkerIds : db_task_raises(w)
    \/ \E w \in WorkerIds : db_task_pool_timeout(w)
    \/ \E w \in WorkerIds : db_task_return(w)
    \/ \E w \in WorkerIds : results_append(w)
    \/ async_gather_return
    \/ async_gather_raises
    \/ sync_join_return


(***************************************************************************)
(* /users and /products: create, update, delete                            *)
(* The two routers run the same statements against the same database; the  *)
(* subject is a parameter of each request.  A create is two steps (its     *)
(* SELECT, then INSERT and commit), so that the creates served by the two  *)
(* routers interleave; update and delete are one step each.                *)
(***************************************************************************)
Usernames == {"alice", "bob"}
Emails == {"a@x", "b@x"}
Skus == {"K1", "K2"}
\* A query parameter left out (= None).
None == "None"
Ids == 1 .. MaxId

NoPending == [op |-> "none", f1 |-> None, f2 |-> None, collides |-> {}]
NoRequest == [op |-> "none", subject |-> "async", status |-> 0, detail |-> "",
              collides |-> {}, changed |-> FALSE]

crud_Idle ==
    /\ db_users = <<>>
    /\ db_products = <<>>
    /\ db_user_seq = 1
    /\ db_product_seq = 1
    /\ crud_pending = [s \in Subjects |-> NoPending]
    /\ crud_last = NoRequest

\* The served request, as the claims read it.  collides: the unique fields
\* of the request whose value another stored row held when the handler ran
\* its first SELECT; changed: whether the stored rows changed.
Served(op, subject, status, detail, collides, changed) ==
    [op |-> op, subject |-> subject, status |-> status, detail |-> detail,
     collides |-> collides, changed |-> changed]

\* The unique columns of users (models/user.py) that a row (username, email)
\* other than `self` already holds.
UserCollisions(self, username, email) ==
    (IF \E i \in DOMAIN db_users : i # self /\ db_users[i].username = username
        THEN {"username"} ELSE {})
    \cup
    (IF \E i \in DOMAIN db_users : i # self /\ db_users[i].email = email
        THEN {"email"} ELSE {})

\* The unique column of products (models/product.py).
ProductCollisions(self, sku) ==
    IF \E i \in DOMAIN db_products : i # self /\ db_products[i].sku = sku
        THEN {"sku"} ELSE {}

\* A delete that leaves the row in place.
WithoutRow_Keep(f, id) == f

\* An insert that stores nothing.
WithRow_Dropped(f, id, row) == f

\* f with the row id |-> row added, and with the row id removed.
WithRow(f, id, row) == [i \in DOMAIN f \cup {id} |-> IF i = id THEN row ELSE f[i]]
WithoutRow(f, id) == [i \in DOMAIN f \ {id} |-> f[i]]

PendingOn(op) == Cardinality({s \in Subjects : crud_pending[s].op = op})

\* create_user's check: select(User).where(User.username == username).
create_user_exists(username, email) ==
    \E i \in DOMAIN db_users : db_users[i].username = username

\* POST /users, first half: the SELECT and the 400.
create_user_check(subject, username, email) ==
    /\ crud_pending[subject].op = "none"
    /\ db_user_seq + PendingOn("create_user") <= MaxId
    /\ IF create_user_exists(username, email)
       THEN /\ crud_last' = Served("create_user", subject, 400,
                                   "Username already registered",
                                   UserCollisions(0, username, email), FALSE)
            /\ UNCHANGED crud_pending
       ELSE /\ crud_pending' = [crud_pending EXCEPT ![subject] =
                  [op |-> "create_user", f1 |-> username, f2 |-> email,
                   collides |-> UserCollisions(0, username, email)]]
            /\ UNCHANGED crud_last
    /\ UNCHANGED <<db_users, db_products, db_user_seq, db_product_seq>>
    /\ OnlyCrud

\* POST /users, second half: db.add(user); commit.  The INSERT draws an id
\* from the sequence; a unique index that the row violates makes commit
\* raise IntegrityError, which no handler catches (a 500).
create_user_commit(subject) ==
    /\ crud_pending[subject].op = "create_user"
    /\ LET r == crud_pending[subject]
           hit == UserCollisions(0, r.f1, r.f2)
       IN  /\ db_user_seq' = db_user_seq + 1
           /\ IF hit # {}
              THEN /\ crud_last' = Served("create_user", subject, 500,
                                          "IntegrityError", r.collides, FALSE)
                   /\ UNCHANGED db_users
              ELSE /\ db_users' = WithRow(db_users, db_user_seq,
                                          [username |-> r.f1, email |-> r.f2])
                   /\ crud_last' = Served("create_user", subject, 200, "",
                                          r.collides, TRUE)
    /\ crud_pending' = [crud_pending EXCEPT ![subject] = NoPending]
    /\ UNCHANGED <<db_products, db_product_seq>>
    /\ OnlyCrud

\* PUT /users/{user_id}: 404 when the id is not stored; else the fields
\* given are assigned and committed.
update_user(subject, user_id, username, email) ==
    /\ IF user_id \notin DOMAIN db_users
       THEN /\ crud_last' = Served("update_user", subject, 404, "User not found",
                                   {}, FALSE)
            /\ UNCHANGED db_users
       ELSE LET old == db_users[user_id]
                new == [username |-> IF username # None THEN username ELSE old.username,
                        email |-> IF email # None THEN email ELSE old.email]
                hit == (IF username # None
                        THEN UserCollisions(user_id, username, new.email) \cap {"username"}
                        ELSE {})
                       \cup
                       (IF email # None
                        THEN UserCollisions(user_id, new.username, email) \cap {"email"}
                        ELSE {})
            IN  IF UserCollisions(user_id, new.username, new.email) # {}
                THEN /\ crud_last' = Served("update_user", subject, 500,
                                            "IntegrityError", hit, FALSE)
                     /\ UNCHANGED db_users
                ELSE /\ db_users' = [db_users EXCEPT ![user_id] = new]
                     /\ crud_last' = Served("update_user", subject, 200, "", hit,
                                            new # old)
    /\ UNCHANGED <<db_products, db_user_seq, db_product_seq, crud_pending>>
    /\ OnlyCrud

\* DELETE /users/{user_id}.
delete_user(subject, user_id) ==
    /\ IF user_id \notin DOMAIN db_users
       THEN /\ crud_last' = Served("delete_user", subject, 404, "User not found",
                                   {}, FALSE)
            /\ UNCHANGED db_users
       ELSE /\ db_users' = WithoutRow(db_users, user_id)
            /\ crud_last' = Served("delete_user", subject, 200, "", {}, TRUE)
    /\ UNCHANGED <<db_products, db_user_seq, db_product_seq, crud_pending>>
    /\ OnlyCrud

\* create_product's check: select(Product).where(Product.sku == sku).
create_product_exists(sku) ==
    \E i \in DOMAIN db_products : db_products[i].sku = sku

\* POST /products, first half.
create_product_check(subject, sku) ==
    /\ crud_pending[subject].op = "none"
    /\ db_product_seq + PendingOn("create_product") <= MaxId
    /\ IF create_product_exists(sku)
       THEN /\ crud_last' = Served("create_product", subject, 400,
                                   "Product with this SKU already exists",
                                   ProductCollisions(0, sku), FALSE)
            /\ UNCHANGED crud_pending
       ELSE /\ crud_pending' = [crud_pending EXCEPT ![subject] =
                  [op |-> "create_product", f1 |-> sku, f2 |-> None,
                   collides |-> ProductCollisions(0, sku)]]
            /\ UNCHANGED crud_last
    /\ UNCHANGED <<db_users, db_products, db_user_seq, db_product_seq>>
    /\ OnlyCrud

\* POST /products, second half.
create_product_commit(subject) ==
    /\ crud_pending[subject].op = "create_product"
    /\ LET r == crud_pending[subject]
           hit == ProductCollisions(0, r.f1)
       IN  /\ db_product_seq' = db_product_seq + 1
           /\ IF hit # {}
              THEN /\ crud_last' = Served("create_product", subject, 500,
                                          "IntegrityError", r.collides, FALSE)
                   /\ UNCHANGED db_products
              ELSE /\ db_products' = WithRow(db_products, db_product_seq,
                                             [sku |-> r.f1])
                   /\ crud_last' = Served("create_product", subject, 200, "",
                                          r.collides, TRUE)
    /\ crud_pending' = [crud_pending EXCEPT ![subject] = NoPending]
    /\ UNCHANGED <<db_users, db_user_seq>>
    /\ OnlyCrud

\* PUT /products/{product_id}.
update_product(subject, product_id, sku) ==
    /\ IF product_id \notin DOMAIN db_products
       THEN /\ crud_last' = Served("update_product", subject, 404,
                                   "Product not found", {}, FALSE)
            /\ UNCHANGED db_products
       ELSE LET old == db_products[product_id]
                new == [sku |-> IF sku # None THEN sku ELSE old.sku]
                hit == ProductCollisions(product_id, new.sku)
            IN  IF hit # {}
                THEN /\ crud_last' = Served("update_product", subject, 500,
                                            "IntegrityError", hit, FALSE)
                     /\ UNCHANGED db_products
                ELSE /\ db_products' = [db_products EXCEPT ![product_id] = new]
                     /\ crud_last' = Served("update_product", subject, 200, "", {},
                                            new # old)
    /\ UNCHANGED <<db_users, db_user_seq, db_product_seq, crud_pending>>
    /\ OnlyCrud

\* DELETE /products/{product_id}.
delete_product(subject, product_id) ==
    /\ IF product_id \notin DOMAIN db_products
       THEN /\ crud_last' = Served("delete_product", subject, 404,
                                   "Product not found", {}, FALSE)
            /\ UNCHANGED db_products
       ELSE /\ db_products' = WithoutRow(db_products, product_id)
            /\ crud_last' = Served("delete_product", subject, 200, "", {}, TRUE)
    /\ UNCHANGED <<db_users, db_user_seq, db_product_seq, crud_pending>>
    /\ OnlyCrud

\* The users tables earlier POST /users requests can have left behind: at
\* least one row, ids the sequence has handed out, no two rows with the
\* same username or the same email.
StoredUsers ==
    {t \in UNION {[D -> [username : Usernames, email : Emails]] :
                     D \in SUBSET Ids \ {{}}} :
        \A i, j \in DOMAIN t :
            i # j => (t[i].username # t[j].username /\ t[i].email # t[j].email)}

\* Likewise for the products table and its unique sku.
StoredProducts ==
    {t \in UNION {[D -> [sku : Skus]] : D \in SUBSET Ids \ {{}}} :
        \A i, j \in DOMAIN t : i # j => t[i].sku # t[j].sku}

\* The update and delete routes of the two routers.
UpdateDeleteNext ==
    \/ \E s \in Subjects, i \in Ids, u \in Usernames \cup {None}, e \in Emails \cup {None} :
          update_user(s, i, u, e)
    \/ \E s \in Subjects, i \in Ids : delete_user(s, i)
    \/ \E s \in Subjects, i \in Ids, k \in Skus \cup {None} : update_product(s, i, k)
    \/ \E s \in Subjects, i \in Ids : delete_product(s, i)

CrudNext ==
    \/ \E s \in Subjects, u \in Usernames, e \in Emails : create_user_check(s, u, e)
    \/ \E s \in Subjects : create_user_commit(s)
    \/ \E s \in Subjects, i \in Ids, u \in Usernames \cup {None}, e \in Emails \cup {None} :
          update_user(s, i, u, e)
    \/ \E s \in Subjects, i \in Ids : delete_user(s, i)
    \/ \E s \in Subjects, k \in Skus : create_product_check(s, k)
    \/ \E s \in Subjects : create_product_commit(s)
    \/ \E s \in Subjects, i \in Ids, k \in Skus \cup {None} : update_product(s, i, k)
    \/ \E s \in Subjects, i \in Ids : delete_product(s, i)



(***************************************************************************)
(* Numbers of the benchmark driver (src/benchmark_test.py).                *)
(* A Python float is modelled as an exact fraction <<n, d>> in lowest      *)
(* terms with d > 0; float("inf") is <<1, 0>>.                             *)
(***************************************************************************)
\* Throughputs (operations_per_second) a server reports: 0 .. MaxOps.
MaxOps == 2
OpsValues == 0 .. MaxOps

RECURSIVE Gcd(_, _)
Gcd(a, b) == IF b = 0 THEN a ELSE Gcd(b, a % b)

Abs(x) == IF x < 0 THEN -x ELSE x

Inf == <<1, 0>>
IsInf(x) == x[2] = 0

\* n / d (d > 0) in lowest terms.
Frac(n, d) == LET g == Gcd(Abs(n), d) IN <<n \div g, d \div g>>
Num(v) == <<v, 1>>

FAdd(x, y) == IF IsInf(x) \/ IsInf(y) THEN Inf
              ELSE Frac(x[1] * y[2] + y[1] * x[2], x[2] * y[2])
FSub(x, y) == Frac(x[1] * y[2] - y[1] * x[2], x[2] * y[2])
FMul(x, y) == IF IsInf(x) \/ IsInf(y) THEN Inf
              ELSE Frac(x[1] * y[1], x[2] * y[2])
\* x / y for y > 0.
FDiv(x, y) == IF IsInf(x) THEN Inf ELSE Frac(x[1] * y[2], x[2] * y[1])
FAbs(x) == <<Abs(x[1]), x[2]>>
\* x > y, for finite y.
FGreater(x, y) == IF IsInf(x) THEN TRUE ELSE x[1] * y[2] > y[1] * x[2]

(***************************************************************************)
(* generate_report (src/benchmark_test.py 191-243)                         *)
(* An analysis is the list analyze_results returns: one entry              *)
(* [count, operations, mean] per non-empty group, mean being               *)
(* operations_per_second["mean"].                                          *)
(***************************************************************************)
\* A difference taken relative to the mean of the two sides.
generate_report_diff_Symmetric(async_mean_ops, sync_mean_ops) ==
    IF FGreater(FAdd(async_mean_ops, sync_mean_ops), Num(0))
    THEN FMul(FDiv(FSub(async_mean_ops, sync_mean_ops),
                   FDiv(FAdd(async_mean_ops, sync_mean_ops), Num(2))), Num(100))
    ELSE Num(0)

\* Lines 210-213: performance_diff_percent.
generate_report_diff(async_mean_ops, sync_mean_ops) ==
    IF FGreater(sync_mean_ops, Num(0))
    THEN FMul(FDiv(FSub(async_mean_ops, sync_mean_ops), sync_mean_ops), Num(100))
    ELSE IF FGreater(async_mean_ops, Num(0)) THEN Inf ELSE Num(0)

\* A winner test that hands ties to async.
async_is_faster_OrEqual(async_ops, sync_ops) == ~FGreater(sync_ops, async_ops)

\* Lines 216 and 231 (and 468, 471 ...): async_mean_ops > sync_mean_ops.
async_is_faster(async_ops, sync_ops) == FGreater(async_ops, sync_ops)

\* next((r for r in sync_analysis if r["count"] == count), None): the index
\* of the first entry for count, 0 standing for None.
RECURSIVE first_with_count(_, _, _)
first_with_count(analysis, count, i) ==
    IF i > Len(analysis) THEN 0
    ELSE IF analysis[i].count = count THEN i
    ELSE first_with_count(analysis, count, i + 1)

\* Lines 203-205: sync_result, and whether `if sync_result:` passes.
sync_lookup(sync_analysis, count) ==
    LET i == first_with_count(sync_analysis, count, 1)
    IN  IF i = 0 THEN [found |-> FALSE, entry |-> <<>>]
        ELSE [found |-> TRUE, entry |-> sync_analysis[i]]

\* The loop of lines 201-233 from entry i on, acc holding async_wins,
\* sync_wins, total_diff_percent, comparison_count and report["comparison"].
RECURSIVE generate_report_loop(_, _, _, _)
generate_report_loop(async_analysis, sync_analysis, i, acc) ==
    IF i > Len(async_analysis) THEN acc
    ELSE
      LET async_result == async_analysis[i]
          count == async_result.count
          sync == sync_lookup(sync_analysis, count)
      IN  IF ~sync.found
          THEN generate_report_loop(async_analysis, sync_analysis, i + 1, acc)
          ELSE
            LET async_mean_ops == async_result.mean
                sync_mean_ops == sync.entry.mean
                diff == generate_report_diff(async_mean_ops, sync_mean_ops)
                won == async_is_faster(async_mean_ops, sync_mean_ops)
            IN  generate_report_loop(async_analysis, sync_analysis, i + 1,
                  [async_wins |-> acc.async_wins + (IF won THEN 1 ELSE 0),
                   sync_wins |-> acc.sync_wins + (IF won THEN 0 ELSE 1),
                   total_diff_percent |-> FAdd(acc.total_diff_percent, diff),
                   comparison_count |-> acc.comparison_count + 1,
                   comparison |-> Append(acc.comparison,
                      [count |-> count,
                       operations |-> async_result.operations,
                       async_ops_per_second |-> async_mean_ops,
                       sync_ops_per_second |-> sync_mean_ops,
                       performance_difference_percent |-> diff,
                       faster |-> IF won THEN "async" ELSE "sync"])])

\* An overall winner that needs no strict majority.
overall_faster_OrEqual(async_wins, sync_wins, a, b) ==
    IF async_wins >= sync_wins THEN a ELSE b

\* Lines 237, 481, 606: a if async_wins > sync_wins else b.
overall_faster(async_wins, sync_wins, a, b) ==
    IF async_wins > sync_wins THEN a ELSE b

generate_report(async_analysis, sync_analysis, test_type) ==
    LET acc == generate_report_loop(async_analysis, sync_analysis, 1,
                 [async_wins |-> 0, sync_wins |-> 0,
                  total_diff_percent |-> Num(0), comparison_count |-> 0,
                  comparison |-> <<>>])
    IN  [test_type |-> test_type,
         async_results |-> async_analysis,
         sync_results |-> sync_analysis,
         comparison |-> acc.comparison,
         summary |->
           [overall_faster |-> overall_faster(acc.async_wins, acc.sync_wins,
                                              "async", "sync"),
            async_wins |-> acc.async_wins,
            sync_wins |-> acc.sync_wins,
            avg_percentage_diff |->
               IF acc.comparison_count > 0
               THEN FDiv(acc.total_diff_percent, Num(acc.comparison_count))
               ELSE Num(0)]]


(***************************************************************************)
(* Python dicts keep insertion order: a dict is a sequence of              *)
(* [key, val] items with distinct keys.                                    *)
(***************************************************************************)
RECURSIVE DictIndex(_, _, _)
DictIndex(d, k, i) ==
    IF i > Len(d) THEN 0
    ELSE IF d[i].key = k THEN i
    ELSE DictIndex(d, k, i + 1)

DictHas(d, k) == DictIndex(d, k, 1) # 0
DictGet(d, k) == d[DictIndex(d, k, 1)].val
\* d[k] = v: in place for a key already there, else at the end.
DictSet(d, k, v) ==
    IF DictHas(d, k)
    THEN [d EXCEPT ![DictIndex(d, k, 1)].val = v]
    ELSE Append(d, [key |-> k, val |-> v])
DictKeys(d) == {d[i].key : i \in 1 .. Len(d)}

(***************************************************************************)
(* analyze_advanced_results (src/benchmark_test.py 427-619)                *)
(* results[category][subject] is a dict count -> result (parallel,         *)
(* complex) or count -> concurrency -> result (concurrent); a result is    *)
(* the JSON of a 200 response or an {"error": message} marker.             *)
(***************************************************************************)
Ok(ops) == [error |-> "", operations_per_second |-> ops]
ErrorMarker(msg) == [error |-> msg, operations_per_second |-> 0]
\* "error" in result
HasError(result) == result.error # ""

\* A difference taken relative to the async side.
percentage_diff_OverAsync(async_ops, sync_ops) ==
    IF FGreater(async_ops, Num(0))
    THEN FMul(FDiv(FSub(async_ops, sync_ops), async_ops), Num(100))
    ELSE IF FGreater(sync_ops, Num(0)) THEN Num(-100) ELSE Num(0)

\* Lines 459-462 (506-509, 557-560): percentage_diff.
percentage_diff(async_ops, sync_ops) ==
    IF FGreater(sync_ops, Num(0))
    THEN FMul(FDiv(FSub(async_ops, sync_ops), sync_ops), Num(100))
    ELSE IF FGreater(async_ops, Num(0)) THEN Num(100) ELSE Num(0)

\* Lines 464-469: the entry analysis[category][count].
comparison_entry(async_ops, sync_ops) ==
    [async |-> async_ops,
     sync |-> sync_ops,
     percentage_diff |-> percentage_diff(async_ops, sync_ops),
     faster |-> IF async_is_faster(async_ops, sync_ops) THEN "asyncpg" ELSE "psycopg2"]

NoTally == [async_wins |-> 0, sync_wins |-> 0, total_diff_percent |-> Num(0),
            comparison_count |-> 0]

\* Lines 471-477: the counters after one more comparison.
tally(t, async_ops, sync_ops) ==
    LET won == async_is_faster(async_ops, sync_ops)
    IN  [async_wins |-> t.async_wins + (IF won THEN 1 ELSE 0),
         sync_wins |-> t.sync_wins + (IF won THEN 0 ELSE 1),
         total_diff_percent |-> FAdd(t.total_diff_percent,
                                     percentage_diff(async_ops, sync_ops)),
         comparison_count |-> t.comparison_count + 1]

\* An error test that only looks at the async side.
skip_error_AsyncOnly(async_result, sync_result) == HasError(async_result)

\* Lines 452 (499, 550): if "error" in async_result or "error" in sync_result.
skip_error(async_result, sync_result) ==
    HasError(async_result) \/ HasError(sync_result)

\* The loop of lines 446-477 (493-524) from item i of the async dict on.
\* acc: the counters, the entries written into analysis[category] and
\* whether results[category]["sync"][count] raised KeyError.
RECURSIVE analyze_counts_loop(_, _, _, _)
analyze_counts_loop(async_dict, sync_dict, i, acc) ==
    IF i > Len(async_dict) \/ acc.raised THEN acc
    ELSE
      LET count == async_dict[i].key
      IN  IF ~DictHas(sync_dict, count)
          THEN [acc EXCEPT !.raised = TRUE]
          ELSE
            LET async_result == async_dict[i].val
                sync_result == DictGet(sync_dict, count)
                async_ops == Num(async_result.operations_per_second)
                sync_ops == Num(sync_result.operations_per_second)
            IN  IF skip_error(async_result, sync_result)
                THEN analyze_counts_loop(async_dict, sync_dict, i + 1, acc)
                ELSE analyze_counts_loop(async_dict, sync_dict, i + 1,
                       [raised |-> FALSE,
                        tally |-> tally(acc.tally, async_ops, sync_ops),
                        entries |-> DictSet(acc.entries, count,
                                            comparison_entry(async_ops, sync_ops))])

\* Lines 480-485 (527-532, 595-600): overall_faster and avg_percentage_diff.
category_overall(t) ==
    IF t.comparison_count > 0
    THEN [overall_faster |-> overall_faster(t.async_wins, t.sync_wins,
                                            "asyncpg", "psycopg2"),
          avg_percentage_diff |-> FDiv(t.total_diff_percent, Num(t.comparison_count))]
    ELSE [overall_faster |-> "unknown", avg_percentage_diff |-> Num(0)]

\* analysis["parallel"] (or "complex"): the three keys of lines 430-431,
\* then one key per compared count.
analyze_category(results_cat) ==
    LET acc == analyze_counts_loop(results_cat["async"], results_cat["sync"], 1,
                 [raised |-> FALSE, tally |-> NoTally, entries |-> <<>>])
        o == category_overall(acc.tally)
    IN  [raised |-> acc.raised,
         overall_faster |-> o.overall_faster,
         avg_percentage_diff |-> o.avg_percentage_diff,
         count_analysis |-> <<>>,
         counts |-> acc.entries]

\* Lines 578-592: concurrency_analysis[concurrency] after one more comparison.
level_tally(levels, concurrency, async_ops, sync_ops) ==
    DictSet(levels, concurrency,
            tally(IF DictHas(levels, concurrency)
                  THEN DictGet(levels, concurrency) ELSE NoTally,
                  async_ops, sync_ops))

\* The inner loop of lines 546-592 over the items of
\* results["concurrent"]["async"][count], from item j on.
RECURSIVE analyze_levels_loop(_, _, _, _, _)
analyze_levels_loop(async_levels, sync_dict, count, j, acc) ==
    IF j > Len(async_levels) \/ acc.raised THEN acc
    ELSE
      LET concurrency == async_levels[j].key
      IN  IF ~DictHas(sync_dict, count)
             \/ ~DictHas(DictGet(sync_dict, count), concurrency)
          THEN [acc EXCEPT !.raised = TRUE]
          ELSE
            LET result == async_levels[j].val
                sync_result == DictGet(DictGet(sync_dict, count), concurrency)
                async_ops == Num(result.operations_per_second)
                sync_ops == Num(sync_result.operations_per_second)
            IN  IF skip_error(result, sync_result)
                THEN analyze_levels_loop(async_levels, sync_dict, count, j + 1, acc)
                ELSE analyze_levels_loop(async_levels, sync_dict, count, j + 1,
                       [raised |-> FALSE,
                        tally |-> tally(acc.tally, async_ops, sync_ops),
                        levels |-> level_tally(acc.levels, concurrency,
                                               async_ops, sync_ops),
                        entries |-> DictSet(acc.entries, count,
                            DictSet(DictGet(acc.entries, count), concurrency,
                                    comparison_entry(async_ops, sync_ops)))])

\* The outer loop of lines 543-592: analysis["concurrent"][count] = {} and
\* then the inner loop.
RECURSIVE analyze_concurrent_loop(_, _, _, _)
analyze_concurrent_loop(async_dict, sync_dict, i, acc) ==
    IF i > Len(async_dict) \/ acc.raised THEN acc
    ELSE
      LET count == async_dict[i].key
      IN  analyze_concurrent_loop(async_dict, sync_dict, i + 1,
            analyze_levels_loop(async_dict[i].val, sync_dict, count, 1,
              [acc EXCEPT !.entries = DictSet(acc.entries, count, <<>>)]))

\* Lines 603-617: the summary of one concurrency level.
level_summary(t) ==
    IF t.comparison_count > 0
    THEN [overall_faster |-> overall_faster(t.async_wins, t.sync_wins,
                                            "asyncpg", "psycopg2"),
          async_wins |-> t.async_wins,
          sync_wins |-> t.sync_wins,
          avg_percentage_diff |-> FDiv(t.total_diff_percent, Num(t.comparison_count))]
    ELSE [overall_faster |-> "unknown", async_wins |-> 0, sync_wins |-> 0,
          avg_percentage_diff |-> Num(0)]

concurrent_tally(results_cat) ==
    analyze_concurrent_loop(results_cat["async"], results_cat["sync"], 1,
        [raised |-> FALSE, tally |-> NoTally, levels |-> <<>>, entries |-> <<>>])

\* analysis["concurrent"].
analyze_concurrent(results_cat) ==
    LET acc == concurrent_tally(results_cat)
        o == category_overall(acc.tally)
    IN  [raised |-> acc.raised,
         overall_faster |-> o.overall_faster,
         avg_percentage_diff |-> o.avg_percentage_diff,
         count_analysis |-> <<>>,
         concurrency_analysis |->
             [j \in 1 .. Len(acc.levels) |->
                 [key |-> acc.levels[j].key, val |-> level_summary(acc.levels[j].val)]],
         counts |-> acc.entries]

\* analyze_advanced_results(results); raised: a KeyError left the function.
analyze_advanced_results(results) ==
    LET parallel == analyze_category(results["parallel"])
        complex == analyze_category(results["complex"])
        concurrent == analyze_concurrent(results["concurrent"])
    IN  [raised |-> parallel.raised \/ complex.raised \/ concurrent.raised,
         parallel |-> parallel,
         complex |-> complex,
         concurrent |-> concurrent]


(***************************************************************************)
(* generate_advanced_report (src/benchmark_test.py 622-731)                *)
(* The function walks analysis[benchmark_type].values(): the values of    *)
(* the keys "overall_faster", "avg_percentage_diff", "count_analysis"      *)
(* (and "concurrency_analysis") that analyze_advanced_results put first,   *)
(* then the comparison entries.  A value is tagged with its Python type.   *)
(***************************************************************************)
PyStr == [kind |-> "str", items |-> <<>>]
PyFloat == [kind |-> "float", items |-> <<>>]
\* A dict value and its string-keyed items.
PyDict(items) == [kind |-> "dict", items |-> items]

\* The dict of one comparison entry.
entry_value(e) ==
    PyDict(<<[key |-> "async", val |-> e.async],
             [key |-> "sync", val |-> e.sync],
             [key |-> "percentage_diff", val |-> e.percentage_diff],
             [key |-> "faster", val |-> e.faster]>>)

\* analysis[benchmark_type].values() for "parallel" and "complex".
analysis_values(a) ==
    <<PyStr, PyFloat, PyDict(<<>>)>>
    \o [i \in 1 .. Len(a.counts) |-> entry_value(a.counts[i].val)]

\* The exception of value[key] for a string key, "" when there is none.
subscript_error(value, key) ==
    IF value.kind # "dict" THEN "TypeError"
    ELSE IF ~DictHas(value.items, key) THEN "KeyError"
    ELSE ""

\* sum(1 for result in values if result["faster"] == label), from value i on.
RECURSIVE faster_count(_, _, _)
faster_count(values, label, i) ==
    IF i > Len(values) THEN [error |-> "", n |-> 0]
    ELSE IF subscript_error(values[i], "faster") # ""
    THEN [error |-> subscript_error(values[i], "faster"), n |-> 0]
    ELSE
      LET rest == faster_count(values, label, i + 1)
      IN  [error |-> rest.error,
           n |-> rest.n + (IF DictGet(values[i].items, "faster") = label THEN 1 ELSE 0)]

\* sum(abs(result["percentage_diff"]) for result in values), from value i on.
RECURSIVE abs_diff_sum(_, _)
abs_diff_sum(values, i) ==
    IF i > Len(values) THEN [error |-> "", total |-> Num(0)]
    ELSE IF subscript_error(values[i], "percentage_diff") # ""
    THEN [error |-> subscript_error(values[i], "percentage_diff"), total |-> Num(0)]
    ELSE
      LET rest == abs_diff_sum(values, i + 1)
      IN  [error |-> rest.error,
           total |-> FAdd(FAbs(DictGet(values[i].items, "percentage_diff")), rest.total)]

NoSummary == [asyncpg_faster_count |-> 0, psycopg2_faster_count |-> 0,
              total_tests |-> 0, avg_percentage_diff |-> Num(0),
              overall_faster |-> ""]

\* Lines 649-670: the summary of "parallel" or "complex"; error names the
\* exception that left the block.  total_tests is len(analysis[type]): the
\* number of keys of the dict.
category_summary(a) ==
    LET values == analysis_values(a)
        asyncpg == faster_count(values, "asyncpg", 1)
        psycopg2 == faster_count(values, "psycopg2", 1)
        total == abs_diff_sum(values, 1)
    IN  IF asyncpg.error # "" THEN [error |-> asyncpg.error, summary |-> NoSummary]
        ELSE IF psycopg2.error # "" THEN [error |-> psycopg2.error, summary |-> NoSummary]
        ELSE IF total.error # "" THEN [error |-> total.error, summary |-> NoSummary]
        ELSE IF Len(values) = 0 THEN [error |-> "ZeroDivisionError", summary |-> NoSummary]
        ELSE [error |-> "",
              summary |-> [asyncpg_faster_count |-> asyncpg.n,
                           psycopg2_faster_count |-> psycopg2.n,
                           total_tests |-> Len(values),
                           avg_percentage_diff |-> FDiv(total.total, Num(Len(values))),
                           overall_faster |-> overall_faster(asyncpg.n, psycopg2.n,
                                                             "asyncpg", "psycopg2")]]

\* The comparison entries of analysis["concurrent"], count by count and
\* level by level.
RECURSIVE concurrent_entries(_, _)
concurrent_entries(counts, i) ==
    IF i > Len(counts) THEN <<>>
    ELSE [j \in 1 .. Len(counts[i].val) |-> counts[i].val[j].val]
         \o concurrent_entries(counts, i + 1)

\* Lines 671-729: the summary of "concurrent".  The loop of line 679 calls
\* count_results.items() on every value of analysis["concurrent"]; a string
\* or a float has no items().  The per-level table of lines 677-709 is not
\* part of the summary modelled here.
concurrent_summary(a) ==
    LET values == <<PyStr, PyFloat, PyDict(<<>>), PyDict(<<>>)>>
                  \o [i \in 1 .. Len(a.counts) |-> PyDict(a.counts[i].val)]
        entries == concurrent_entries(a.counts, 1)
        asyncpg == Cardinality({j \in 1 .. Len(entries) : entries[j].faster = "asyncpg"})
        psycopg2 == Len(entries) - asyncpg
        total == abs_diff_sum([j \in 1 .. Len(entries) |-> entry_value(entries[j])], 1)
    IN  IF \E i \in 1 .. Len(values) : values[i].kind # "dict"
        THEN [error |-> "AttributeError", summary |-> NoSummary]
        ELSE [error |-> "",
              summary |-> [asyncpg_faster_count |-> asyncpg,
                           psycopg2_faster_count |-> psycopg2,
                           total_tests |-> Len(entries),
                           avg_percentage_diff |->
                               IF Len(entries) > 0
                               THEN FDiv(total.total, Num(Len(entries)))
                               ELSE Num(0),
                           overall_faster |-> overall_faster(asyncpg, psycopg2,
                                                             "asyncpg", "psycopg2")]]

\* generate_advanced_report(analysis): the report, or the exception raised.
generate_advanced_report(analysis) ==
    LET parallel == category_summary(analysis.parallel)
        complex == category_summary(analysis.complex)
        concurrent == concurrent_summary(analysis.concurrent)
        error == IF parallel.error # "" THEN parallel.error
                 ELSE IF complex.error # "" THEN complex.error
                 ELSE concurrent.error
    IN  [error |-> error,
         parallel |-> [results |-> analysis.parallel, summary |-> parallel.summary],
         complex |-> [results |-> analysis.complex, summary |-> complex.summary],
         concurrent |-> [results |-> analysis.concurrent,
                         summary |-> concurrent.summary]]

(***************************************************************************)
(* analyze_results (src/benchmark_test.py 142-188)                         *)
(* results: one list of samples per count; a sample carries the count,     *)
(* operations_per_second and, for the mixed drivers, operations.           *)
(***************************************************************************)
RECURSIVE ops_sum(_, _)
ops_sum(count_results, i) ==
    IF i > Len(count_results) THEN 0
    ELSE count_results[i].operations_per_second + ops_sum(count_results, i + 1)

\* statistics.mean of the operations_per_second of a non-empty list.
mean_ops(count_results) == Frac(ops_sum(count_results, 1), Len(count_results))

RECURSIVE analyze_results_loop(_, _)
analyze_results_loop(results, i) ==
    IF i > Len(results) THEN <<>>
    ELSE IF Len(results[i]) = 0 THEN analyze_results_loop(results, i + 1)
    ELSE <<[count |-> results[i][1].count,
            operations |-> IF results[i][1].has_operations
                           THEN results[i][1].operations
                           ELSE results[i][1].count * 2,
            mean |-> mean_ops(results[i])]>>
         \o analyze_results_loop(results, i + 1)

analyze_results(results) == analyze_results_loop(results, 1)

(***************************************************************************)
(* The benchmark script as a state machine (src/benchmark_test.py).        *)
(* The script is single-threaded: py_call names the function it was        *)
(* started with, "generate_report" with two analyses as arguments,         *)
(* "run_advanced_benchmarks" (followed by analyze_advanced_results and     *)
(* generate_advanced_report, as lines 799-801 chain them), or "main".      *)
(***************************************************************************)
standard_counts == <<10, 50, 100, 500, 1000, 2000, 5000, 10000, 20000, 50000>>
standard_iterations == 3
mixed_counts == <<10, 50, 100, 500, 1000, 2000, 5000, 10000>>
mixed_iterations == 3
test_counts == <<10000>>
concurrency_levels == <<5>>
\* The literal list of the concurrent loop, line 364.
concurrent_counts == <<100000>>

\* generate_report is applied to analyses of at most MaxEntries counts.
MaxEntries == 2

Categories == {"parallel", "complex", "concurrent"}

\* Lines 271-275: results.
EmptyResults == [c \in Categories |-> [s \in Subjects |-> <<>>]]

\* The configurations in the order run_advanced_benchmarks requests them:
\* parallel and complex per count, concurrent per count and level.
AdvancedConfigs ==
    [i \in 1 .. Len(test_counts) |->
        [category |-> "parallel", count |-> test_counts[i], concurrency |-> 0]]
    \o [i \in 1 .. Len(test_counts) |->
        [category |-> "complex", count |-> test_counts[i], concurrency |-> 0]]
    \o [k \in 1 .. Len(concurrent_counts) * Len(concurrency_levels) |->
        [category |-> "concurrent",
         count |-> concurrent_counts[((k - 1) \div Len(concurrency_levels)) + 1],
         concurrency |-> concurrency_levels[((k - 1) % Len(concurrency_levels)) + 1]]]

\* results[category][subject][count] = result, or, for "concurrent",
\* results[category][subject][count][concurrency] = result after
\* results[category][subject][count] = {} for a count not yet there.
store(results, cfg, subject, result) ==
    LET d == results[cfg.category][subject]
    IN  IF cfg.category = "concurrent"
        THEN [results EXCEPT ![cfg.category][subject] =
                 DictSet(d, cfg.count,
                         DictSet(IF DictHas(d, cfg.count)
                                 THEN DictGet(d, cfg.count) ELSE <<>>,
                                 cfg.concurrency, result))]
        ELSE [results EXCEPT ![cfg.category][subject] = DictSet(d, cfg.count, result)]

Unassigned == [error |-> "unassigned"]
NoDriver == [pc |-> "idle", name |-> "", i |-> 0, error |-> "",
             count_results |-> <<>>, results |-> <<>>]
DriverNames == {"run_async_tests", "run_sync_tests",
                "run_async_mixed_tests", "run_sync_mixed_tests"}
NoFile == [written |-> FALSE]

\* The state of the script before it is started.
bm_Start(call, ops, pc, async_analysis, sync_analysis) ==
    /\ py_call = call
    /\ server_ops = ops
    /\ gr_pc = pc
    /\ gr_async_analysis = async_analysis
    /\ gr_sync_analysis = sync_analysis
    /\ gr_report = Unassigned
    /\ adv_pc = "idle"
    /\ adv_i = 0
    /\ adv_results = EmptyResults
    /\ adv_analysis = Unassigned
    /\ adv_report = Unassigned
    /\ m_pc = "idle"
    /\ drv = NoDriver
    /\ m_results = [d \in DriverNames |-> <<>>]
    /\ m_reports = [t \in {"standard", "mixed"} |-> Unassigned]
    /\ report_file = NoFile

bm_Idle == bm_Start("none", [s \in Subjects |-> {}], "idle", <<>>, <<>>)

\* An analysis as analyze_results returns it for the counts in `present`.
RECURSIVE analysis_of(_, _, _)
analysis_of(present, means, i) ==
    IF i > MaxEntries THEN <<>>
    ELSE (IF i \in present
          THEN <<[count |-> standard_counts[i],
                  operations |-> standard_counts[i] * 2,
                  mean |-> Num(means[i])]>>
          ELSE <<>>)
         \o analysis_of(present, means, i + 1)

Analyses ==
    {analysis_of(present, means, 1) :
        present \in SUBSET (1 .. MaxEntries),
        means \in [1 .. MaxEntries -> OpsValues]}

\* The script is started with one of its functions.  Under main each
\* server answers with one throughput for the whole run.
BenchmarkInit ==
    /\ cc_Idle
    /\ crud_Idle
    /\ cmp_Idle
    /\ mx_Idle
    /\ ep_Idle
    /\ dr_Idle
    /\ an_Idle
    /\ \/ \E a \in Analyses, b \in Analyses :
              bm_Start("generate_report", [s \in Subjects |-> {}], "ready", a, b)
       \/ bm_Start("run_advanced_benchmarks", [s \in Subjects |-> OpsValues],
                   "idle", <<>>, <<>>)
       \/ \E a \in OpsValues, b \in OpsValues :
              bm_Start("main", [s \in Subjects |-> IF s = "async" THEN {a} ELSE {b}],
                       "idle", <<>>, <<>>)

\* generate_report(async_analysis, sync_analysis, "standard") on its own.
call_generate_report ==
    /\ py_call = "generate_report"
    /\ gr_pc = "ready"
    /\ gr_report' = generate_report(gr_async_analysis, gr_sync_analysis, "standard")
    /\ gr_pc' = "returned"
    /\ UNCHANGED <<py_call, server_ops, gr_async_analysis, gr_sync_analysis,
                   adv_pc, adv_i, adv_results, adv_analysis, adv_report,
                   m_pc, drv, m_results, m_reports, report_file>>
    /\ OnlyBenchmark

\* What the steps of the advanced pipeline leave alone.
OnlyAdvanced ==
    /\ UNCHANGED <<py_call, server_ops, gr_pc, gr_async_analysis, gr_sync_analysis,
                   gr_report, m_pc, drv, m_results, m_reports, report_file>>
    /\ OnlyBenchmark

\* run_advanced_benchmarks is entered: on its own, or from line 799 of main.
run_advanced_benchmarks ==
    /\ \/ py_call = "run_advanced_benchmarks"
       \/ py_call = "main" /\ m_pc = "advanced"
    /\ adv_pc = "idle"
    /\ adv_pc' = "async"
    /\ adv_i' = 1
    /\ adv_results' = EmptyResults
    /\ UNCHANGED <<adv_analysis, adv_report>>
    /\ OnlyAdvanced

\* The position after configuration adv_i has been dealt with.
advanced_continue ==
    /\ adv_i' = adv_i + 1
    /\ adv_pc' = IF adv_i = Len(AdvancedConfigs) THEN "collected" ELSE "async"

\* The request to the async router came back with status 200.
advanced_async_response ==
    /\ adv_pc = "async"
    /\ \E ops \in server_ops["async"] :
           adv_results' = store(adv_results, AdvancedConfigs[adv_i], "async", Ok(ops))
    /\ adv_pc' = "sync"
    /\ UNCHANGED <<adv_i, adv_analysis, adv_report>>
    /\ OnlyAdvanced

\* The request to the async router came back with another status.
advanced_async_error_status ==
    /\ adv_pc = "async"
    /\ adv_results' = store(adv_results, AdvancedConfigs[adv_i], "async",
                            ErrorMarker("HTTP 500"))
    /\ adv_pc' = "sync"
    /\ UNCHANGED <<adv_i, adv_analysis, adv_report>>
    /\ OnlyAdvanced

\* An except clause that marks the async side only.
advanced_except_AsyncOnly(results, cfg) ==
    store(results, cfg, "async", ErrorMarker("ConnectionError"))

\* The except clause of the configuration: both sides get the marker.
advanced_except(results, cfg) ==
    store(store(results, cfg, "async", ErrorMarker("ConnectionError")),
          cfg, "sync", ErrorMarker("ConnectionError"))

\* requests.get of the async router raised.
advanced_async_raises ==
    /\ adv_pc = "async"
    /\ adv_results' = advanced_except(adv_results, AdvancedConfigs[adv_i])
    /\ advanced_continue
    /\ UNCHANGED <<adv_analysis, adv_report>>
    /\ OnlyAdvanced

\* The request to the sync router came back with status 200.
advanced_sync_response ==
    /\ adv_pc = "sync"
    /\ \E ops \in server_ops["sync"] :
           adv_results' = store(adv_results, AdvancedConfigs[adv_i], "sync", Ok(ops))
    /\ advanced_continue
    /\ UNCHANGED <<adv_analysis, adv_report>>
    /\ OnlyAdvanced

\* The request to the sync router came back with another status.
advanced_sync_error_status ==
    /\ adv_pc = "sync"
    /\ adv_results' = store(adv_results, AdvancedConfigs[adv_i], "sync",
                            ErrorMarker("HTTP 500"))
    /\ advanced_continue
    /\ UNCHANGED <<adv_analysis, adv_report>>
    /\ OnlyAdvanced

\* requests.get of the sync router raised.
advanced_sync_raises ==
    /\ adv_pc = "sync"
    /\ adv_results' = advanced_except(adv_results, AdvancedConfigs[adv_i])
    /\ advanced_continue
    /\ UNCHANGED <<adv_analysis, adv_report>>
    /\ OnlyAdvanced

\* Line 800: advanced_analysis = analyze_advanced_results(advanced_results).
call_analyze_advanced_results ==
    /\ adv_pc = "collected"
    /\ adv_analysis' = analyze_advanced_results(adv_results)
    /\ adv_pc' = IF adv_analysis'.raised THEN "raised" ELSE "analyzed"
    /\ adv_report' = IF adv_analysis'.raised THEN [error |-> "KeyError"] ELSE adv_report
    /\ UNCHANGED <<adv_i, adv_results>>
    /\ OnlyAdvanced

\* Line 801: advanced_report = generate_advanced_report(advanced_analysis);
\* on an exception advanced_report is the {"error": ...} of line 804.
call_generate_advanced_report ==
    /\ adv_pc = "analyzed"
    /\ LET report == generate_advanced_report(adv_analysis)
       IN  /\ adv_report' = IF report.error # "" THEN [error |-> report.error]
                            ELSE report
           /\ adv_pc' = IF report.error # "" THEN "raised" ELSE "reported"
    /\ UNCHANGED <<adv_i, adv_results, adv_analysis>>
    /\ OnlyAdvanced

\* What the steps of main and of its sequential drivers leave alone.
OnlyMain ==
    /\ UNCHANGED <<py_call, server_ops, gr_pc, gr_async_analysis, gr_sync_analysis,
                   gr_report, adv_pc, adv_i, adv_results, adv_analysis, adv_report>>
    /\ OnlyBenchmark

\* The statement of main that follows a statement.
next_statement ==
    [idle |-> "run_async_tests",
     run_async_tests |-> "run_sync_tests",
     run_sync_tests |-> "standard_report",
     standard_report |-> "run_async_mixed_tests",
     run_async_mixed_tests |-> "run_sync_mixed_tests",
     run_sync_mixed_tests |-> "mixed_report",
     mixed_report |-> "advanced"]

driver_subject(name) ==
    IF name \in {"run_async_tests", "run_async_mixed_tests"} THEN "async" ELSE "sync"
driver_mixed(name) == name \in {"run_async_mixed_tests", "run_sync_mixed_tests"}
driver_counts(name) == IF driver_mixed(name) THEN mixed_counts ELSE standard_counts
driver_iterations(name) ==
    IF driver_mixed(name) THEN mixed_iterations ELSE standard_iterations

\* main() is entered.
main ==
    /\ py_call = "main"
    /\ m_pc = "idle"
    /\ m_pc' = next_statement[m_pc]
    /\ UNCHANGED <<drv, m_results, m_reports, report_file>>
    /\ OnlyMain

\* main calls the driver it is at (lines 765, 768-771, 782, 785-788).
main_call_driver ==
    /\ m_pc \in DriverNames
    /\ drv.pc = "idle"
    /\ drv' = [NoDriver EXCEPT !.pc = "running", !.name = m_pc, !.i = 1]
    /\ UNCHANGED <<m_pc, m_results, m_reports, report_file>>
    /\ OnlyMain

\* One request of the driver is answered with status 200: the sample is
\* appended, and after the last iteration of a count the list of the count.
\* The mixed endpoint is taken on a populated database, where each of its
\* iterations performs two operations.
driver_response ==
    /\ drv.pc = "running"
    /\ \E ops \in server_ops[driver_subject(drv.name)] :
         LET count == driver_counts(drv.name)[drv.i]
             sample == [count |-> count,
                        operations_per_second |-> ops,
                        has_operations |-> driver_mixed(drv.name),
                        operations |-> IF driver_mixed(drv.name) THEN count * 2 ELSE 0]
             count_results == Append(drv.count_results, sample)
         IN  IF Len(count_results) < driver_iterations(drv.name)
             THEN drv' = [drv EXCEPT !.count_results = count_results]
             ELSE drv' = [drv EXCEPT
                            !.count_results = <<>>,
                            !.results = Append(@, count_results),
                            !.i = @ + 1,
                            !.pc = IF drv.i = Len(driver_counts(drv.name))
                                   THEN "returned" ELSE "running"]
    /\ UNCHANGED <<m_pc, m_results, m_reports, report_file>>
    /\ OnlyMain

\* One request of the driver is answered with another status: the body has
\* no "execution_time_seconds", result[...] raises KeyError, nothing catches
\* it in the driver or in main.
driver_error_status ==
    /\ drv.pc = "running"
    /\ drv' = [drv EXCEPT !.pc = "raised", !.error = "KeyError"]
    /\ m_pc' = "crashed"
    /\ UNCHANGED <<m_results, m_reports, report_file>>
    /\ OnlyMain

\* One request of the driver raises (no connection): nothing catches it.
driver_raises ==
    /\ drv.pc = "running"
    /\ drv' = [drv EXCEPT !.pc = "raised", !.error = "ConnectionError"]
    /\ m_pc' = "crashed"
    /\ UNCHANGED <<m_results, m_reports, report_file>>
    /\ OnlyMain

\* The driver returns its results to main.
main_driver_return ==
    /\ drv.pc = "returned"
    /\ m_results' = [m_results EXCEPT ![drv.name] = drv.results]
    /\ drv' = NoDriver
    /\ m_pc' = next_statement[m_pc]
    /\ UNCHANGED <<m_reports, report_file>>
    /\ OnlyMain

\* Lines 774-778 and 791-795: analyze_results twice, then generate_report.
main_generate_report ==
    /\ m_pc \in {"standard_report", "mixed_report"}
    /\ LET test_type == IF m_pc = "standard_report" THEN "standard" ELSE "mixed"
           async_driver == IF m_pc = "standard_report"
                           THEN "run_async_tests" ELSE "run_async_mixed_tests"
           sync_driver == IF m_pc = "standard_report"
                          THEN "run_sync_tests" ELSE "run_sync_mixed_tests"
       IN  m_reports' = [m_reports EXCEPT ![test_type] =
               generate_report(analyze_results(m_results[async_driver]),
                               analyze_results(m_results[sync_driver]),
                               test_type)]
    /\ m_pc' = next_statement[m_pc]
    /\ UNCHANGED <<drv, m_results, report_file>>
    /\ OnlyMain

\* Lines 806-815: combined_report and json.dump.  "advanced" is added only
\* if advanced_report has no "error" key.
main_save ==
    /\ py_call = "main"
    /\ m_pc = "advanced"
    /\ adv_pc \in {"reported", "raised"}
    /\ report_file' = [written |-> TRUE,
                       standard |-> m_reports["standard"],
                       mixed |-> m_reports["mixed"],
                       has_advanced |-> adv_pc = "reported",
                       advanced |-> adv_report]
    /\ m_pc' = "saved"
    /\ UNCHANGED <<drv, m_results, m_reports>>
    /\ OnlyMain

BenchmarkNext ==
    \/ call_generate_report
    \/ run_advanced_benchmarks
    \/ advanced_async_response
    \/ advanced_async_error_status
    \/ advanced_async_raises
    \/ advanced_sync_response
    \/ advanced_sync_error_status
    \/ advanced_sync_raises
    \/ call_analyze_advanced_results
    \/ call_generate_advanced_report
    \/ main
    \/ main_call_driver
    \/ driver_response
    \/ driver_error_status
    \/ driver_raises
    \/ main_driver_return
    \/ main_generate_report
    \/ main_save

(***************************************************************************)
(* /benchmark/mixed (async router 198-283, sync router 187-267)            *)
(* The handler runs on the request's session against the shared tables;    *)
(* every sub-operation (a SELECT and the commit that follows it) is one    *)
(* step, and the delete routes of other clients may run between two steps. *)
(***************************************************************************)
MaxMixedCount == 8
MixedCounts == -1 .. MaxMixedCount
\* time.time() differences the handler can observe, in clock ticks; the
\* wall clock may also be set back while the request runs.
MaxElapsed == 1
ElapsedValues == -1 .. MaxElapsed

\* A branch selector that is off by one.
branch_Shifted(i) == <<"read", "update", "delete", "create">>[(i % 4) + 1]

\* if i % 4 == 0 ... elif i % 4 == 1 ... elif i % 4 == 2 ... else.
branch(i) ==
    IF i % 4 = 0 THEN "create"
    ELSE IF i % 4 = 1 THEN "read"
    ELSE IF i % 4 = 2 THEN "update"
    ELSE "delete"

\* int(time.time() * 1000) of the request, as text.
timestamp == "T"
bench_username(i) == "bench_user_" \o timestamp \o "_" \o ToString(i)
bench_email(i) == bench_username(i) \o "@example.com"
bench_sku(i) == "BENCH-SKU-" \o timestamp \o "-" \o ToString(i)

\* An increment that also counts a sub-operation that found no row.
found_increment_Always(found) == 1

\* if user: ... operations += 1
found_increment(found) == IF found THEN 1 ELSE 0

\* Lines 273-276 (and in every benchmark handler): operations_per_second.
operations_per_second(operations, execution_time) ==
    IF execution_time > 0 THEN Frac(operations, execution_time) ELSE Num(0)

\* The success body of a benchmark handler.
benchmark_body(operations, execution_time) ==
    [status |-> 200,
     operations |-> operations,
     execution_time_seconds |-> execution_time,
     operations_per_second |-> operations_per_second(operations, execution_time)]

\* A delete that takes the row with the lowest id.
last_id_First(table) == CHOOSE i \in DOMAIN table : \A j \in DOMAIN table : i <= j

\* select(...).order_by(id.desc()).limit(1): the row with the highest id.
last_id(table) == CHOOSE i \in DOMAIN table : \A j \in DOMAIN table : j <= i

\* The entry of mx_log for an iteration that has just started.
Started_iteration(i, kind) == [i |-> i, branch |-> kind, user |-> 0, product |-> 0]

\* The request arrives: start_time, operations = 0, timestamp.
benchmark_mixed(subject, count) ==
    /\ mx_pc = "idle"
    /\ mx_pc' = "running"
    /\ mx_subject' = subject
    /\ mx_count' = count
    /\ UNCHANGED <<mx_i, mx_step, mx_operations, mx_log, mx_response>>
    /\ UNCHANGED <<db_users, db_products, db_user_seq, db_product_seq>>
    /\ OnlyMixed

\* i % 4 == 0: a user and a product are inserted and committed, each with
\* an id from its sequence; operations += 2.  No stored row holds
\* the generated username, email or sku.
mixed_create ==
    /\ mx_pc = "running"
    /\ mx_i \in range(mx_count)
    /\ branch(mx_i) = "create"
    /\ db_users' = WithRow(db_users, db_user_seq,
                           [username |-> bench_username(mx_i),
                            email |-> bench_email(mx_i)])
    /\ db_user_seq' = db_user_seq + 1
    /\ db_products' = WithRow(db_products, db_product_seq,
                              [sku |-> bench_sku(mx_i)])
    /\ db_product_seq' = db_product_seq + 1
    /\ mx_operations' = mx_operations + 2
    /\ mx_log' = Append(mx_log, [Started_iteration(mx_i, "create") EXCEPT
                                   !.user = db_user_seq,
                                   !.product = db_product_seq])
    /\ mx_i' = mx_i + 1
    /\ UNCHANGED <<mx_pc, mx_subject, mx_count, mx_step, mx_response>>
    /\ OnlyMixed

\* i % 4 == 1: select(User), select(Product); operations += 2.
mixed_read ==
    /\ mx_pc = "running"
    /\ mx_i \in range(mx_count)
    /\ branch(mx_i) = "read"
    /\ mx_operations' = mx_operations + 2
    /\ mx_log' = Append(mx_log, Started_iteration(mx_i, "read"))
    /\ mx_i' = mx_i + 1
    /\ UNCHANGED <<mx_pc, mx_subject, mx_count, mx_step, mx_response>>
    /\ UNCHANGED <<db_users, db_products, db_user_seq, db_product_seq>>
    /\ OnlyMixed

\* i % 4 == 2, first half: select(User).limit(1) returns some stored user
\* (no ORDER BY: any row) or None; if user: full_name is assigned and
\* committed (a column the tables of this model do not carry) and
\* operations += 1.
mixed_update_user ==
    /\ mx_pc = "running"
    /\ mx_i \in range(mx_count)
    /\ branch(mx_i) = "update"
    /\ mx_step = "user"
    /\ \E target \in (IF DOMAIN db_users = {} THEN {0} ELSE DOMAIN db_users) :
          /\ mx_operations' = mx_operations + found_increment(target # 0)
          /\ mx_log' = Append(mx_log, [Started_iteration(mx_i, "update") EXCEPT
                                         !.user = target])
    /\ mx_step' = "product"
    /\ UNCHANGED <<mx_pc, mx_subject, mx_count, mx_i, mx_response>>
    /\ UNCHANGED <<db_users, db_products, db_user_seq, db_product_seq>>
    /\ OnlyMixed

\* i % 4 == 2, second half: the same for select(Product).limit(1) and price.
mixed_update_product ==
    /\ mx_pc = "running"
    /\ mx_i \in range(mx_count)
    /\ branch(mx_i) = "update"
    /\ mx_step = "product"
    /\ \E target \in (IF DOMAIN db_products = {} THEN {0} ELSE DOMAIN db_products) :
          /\ mx_operations' = mx_operations + found_increment(target # 0)
          /\ mx_log' = [mx_log EXCEPT ![Len(mx_log)].product = target]
    /\ mx_step' = "user"
    /\ mx_i' = mx_i + 1
    /\ UNCHANGED <<mx_pc, mx_subject, mx_count, mx_response>>
    /\ UNCHANGED <<db_users, db_products, db_user_seq, db_product_seq>>
    /\ OnlyMixed

\* else, first half: the user with the highest id, if any, is deleted and
\* the delete committed; operations += 1.
mixed_delete_user ==
    /\ mx_pc = "running"
    /\ mx_i \in range(mx_count)
    /\ branch(mx_i) = "delete"
    /\ mx_step = "user"
    /\ LET found == DOMAIN db_users # {}
           target == IF found THEN last_id(db_users) ELSE 0
       IN  /\ db_users' = IF found THEN WithoutRow(db_users, target) ELSE db_users
           /\ mx_operations' = mx_operations + found_increment(found)
           /\ mx_log' = Append(mx_log, [Started_iteration(mx_i, "delete") EXCEPT
                                          !.user = target])
    /\ mx_step' = "product"
    /\ UNCHANGED <<mx_pc, mx_subject, mx_count, mx_i, mx_response>>
    /\ UNCHANGED <<db_products, db_user_seq, db_product_seq>>
    /\ OnlyMixed

\* else, second half: the same for the product with the highest id.
mixed_delete_product ==
    /\ mx_pc = "running"
    /\ mx_i \in range(mx_count)
    /\ branch(mx_i) = "delete"
    /\ mx_step = "product"
    /\ LET found == DOMAIN db_products # {}
           target == IF found THEN last_id(db_products) ELSE 0
       IN  /\ db_products' = IF found THEN WithoutRow(db_products, target)
                             ELSE db_products
           /\ mx_operations' = mx_operations + found_increment(found)
           /\ mx_log' = [mx_log EXCEPT ![Len(mx_log)].product = target]
    /\ mx_step' = "user"
    /\ mx_i' = mx_i + 1
    /\ UNCHANGED <<mx_pc, mx_subject, mx_count, mx_response>>
    /\ UNCHANGED <<db_users, db_user_seq, db_product_seq>>
    /\ OnlyMixed

\* A statement of the handler raises (the database is unreachable, a
\* timeout): no except clause, the request ends as a server error.
mixed_raises ==
    /\ mx_pc = "running"
    /\ mx_i \in range(mx_count)
    /\ mx_pc' = "failed"
    /\ UNCHANGED <<mx_subject, mx_count, mx_i, mx_step, mx_operations, mx_log,
                   mx_response>>
    /\ UNCHANGED <<db_users, db_products, db_user_seq, db_product_seq>>
    /\ OnlyMixed

\* The loop is over: execution_time, operations_per_second, the body.
mixed_return(execution_time) ==
    /\ mx_pc = "running"
    /\ mx_i \notin range(mx_count)
    /\ mx_response' = benchmark_body(mx_operations, execution_time)
    /\ mx_pc' = "done"
    /\ UNCHANGED <<mx_subject, mx_count, mx_i, mx_step, mx_operations, mx_log>>
    /\ UNCHANGED <<db_users, db_products, db_user_seq, db_product_seq>>
    /\ OnlyMixed

\* The tables the request can find: empty, or one user and one product
\* stored by an earlier POST.
MixedInit ==
    /\ cc_Idle
    /\ bm_Idle
    /\ cmp_Idle
    /\ mx_Idle
    /\ ep_Idle
    /\ dr_Idle
    /\ an_Idle
    /\ \E n \in 0 .. 1 :
          /\ db_users = [i \in 1 .. n |-> [username |-> "alice", email |-> "a@x"]]
          /\ db_user_seq = n + 1
          /\ db_products = [i \in 1 .. n |-> [sku |-> "K1"]]
          /\ db_product_seq = n + 1
    /\ crud_pending = [s \in Subjects |-> NoPending]
    /\ crud_last = NoRequest

\* The mixed benchmark, and the delete routes serving other clients
\* meanwhile (through the other router: which router deletes a row makes no
\* difference to the tables).
MixedNext ==
    \/ \E s \in Subjects, c \in MixedCounts : benchmark_mixed(s, c)
    \/ mixed_create
    \/ mixed_read
    \/ mixed_update_user
    \/ mixed_update_product
    \/ mixed_delete_user
    \/ mixed_delete_product
    \/ mixed_raises
    \/ \E t \in ElapsedValues : mixed_return(t)
    \/ \E s \in Subjects \ {mx_subject}, i \in Ids : delete_user(s, i)
    \/ \E s \in Subjects \ {mx_subject}, i \in Ids : delete_product(s, i)

\* The mixed benchmark as the only client that writes the tables.
MixedAloneNext ==
    \/ \E s \in Subjects, c \in MixedCounts : benchmark_mixed(s, c)
    \/ mixed_create
    \/ mixed_read
    \/ mixed_update_user
    \/ mixed_update_product
    \/ mixed_delete_user
    \/ mixed_delete_product
    \/ mixed_raises
    \/ \E t \in ElapsedValues : mixed_return(t)

(***************************************************************************)
(* /benchmark, /benchmark/parallel and /benchmark/complex                  *)
(* (async router 172-195, 286-342, 345-393; sync router 161-184, 270-321,  *)
(* 324-363).  The queries only read, so the tables are left out.           *)
(***************************************************************************)
EndpointKinds == {"benchmark", "parallel", "complex"}

\* The four queries in the order gather / executor.submit is given them.
batch == <<"query_users", "query_products", "query_users_with_filter",
           "query_products_with_join">>

NoBatch == [q \in QueryNames |-> "none"]
Launched(q) == ep_queries[q] # "none"
Finished(q) == ep_queries[q] \in {"done", "failed"}

\* The session a query function of /benchmark/parallel executes on.
\* async: each coroutine enters async with get_db_session() as task_db, a
\* session of its own.  sync: the four functions are closures over the
\* handler's parameter db, the request-scoped session.
query_session(subject, q) == IF subject = "async" THEN q ELSE "db"

\* A read-only benchmark that counts one operation per iteration.
benchmark_operations_PerIteration(count) == count

\* /benchmark keeps no counter: "operations": count * 2.
benchmark_operations(count) == count * 2

\* The request arrives: start_time (and operations = 0).
benchmark_request(kind, subject, count) ==
    /\ ep_pc = "idle"
    /\ ep_pc' = "loop"
    /\ ep_kind' = kind
    /\ ep_subject' = subject
    /\ ep_count' = count
    /\ UNCHANGED <<ep_i, ep_operations, ep_queries, ep_response>>
    /\ OnlyEndpoint

\* /benchmark: one iteration, select(User) and select(Product).
benchmark_iteration ==
    /\ ep_pc = "loop"
    /\ ep_kind = "benchmark"
    /\ ep_i \in range(ep_count)
    /\ ep_i' = ep_i + 1
    /\ UNCHANGED <<ep_pc, ep_kind, ep_subject, ep_count, ep_operations,
                   ep_queries, ep_response>>
    /\ OnlyEndpoint

\* /benchmark/complex: one iteration, three statements, operations += 1
\* after each.
complex_iteration ==
    /\ ep_pc = "loop"
    /\ ep_kind = "complex"
    /\ ep_i \in range(ep_count)
    /\ ep_i' = ep_i + 1
    /\ ep_operations' = ep_operations + 1 + 1 + 1
    /\ UNCHANGED <<ep_pc, ep_kind, ep_subject, ep_count, ep_queries, ep_response>>
    /\ OnlyEndpoint

\* /benchmark and /benchmark/complex: a statement raises; no except clause.
benchmark_raises ==
    /\ ep_pc = "loop"
    /\ ep_kind \in {"benchmark", "complex"}
    /\ ep_i \in range(ep_count)
    /\ ep_pc' = "failed"
    /\ UNCHANGED <<ep_kind, ep_subject, ep_count, ep_i, ep_operations,
                   ep_queries, ep_response>>
    /\ OnlyEndpoint

\* async /benchmark/parallel: asyncio.gather(query_users(), ...) schedules
\* the four coroutines at once.
parallel_gather ==
    /\ ep_pc = "loop"
    /\ ep_kind = "parallel"
    /\ ep_subject = "async"
    /\ ep_i \in range(ep_count)
    /\ ep_queries' = [q \in QueryNames |-> "running"]
    /\ ep_pc' = "batch"
    /\ UNCHANGED <<ep_kind, ep_subject, ep_count, ep_i, ep_operations, ep_response>>
    /\ OnlyEndpoint

\* sync /benchmark/parallel: with ThreadPoolExecutor(max_workers=4).
parallel_executor ==
    /\ ep_pc = "loop"
    /\ ep_kind = "parallel"
    /\ ep_subject = "sync"
    /\ ep_i \in range(ep_count)
    /\ ep_pc' = "batch"
    /\ UNCHANGED <<ep_kind, ep_subject, ep_count, ep_i, ep_operations,
                   ep_queries, ep_response>>
    /\ OnlyEndpoint

\* sync: executor.submit(query), one query after the other; a submitted
\* query runs on a pool thread at once.
parallel_submit ==
    /\ ep_pc = "batch"
    /\ ep_subject = "sync"
    /\ \E k \in 1 .. Len(batch) :
          /\ ~Launched(batch[k])
          /\ \A j \in 1 .. (k - 1) : Launched(batch[j])
          /\ ep_queries' = [ep_queries EXCEPT ![batch[k]] = "running"]
    /\ UNCHANGED <<ep_pc, ep_kind, ep_subject, ep_count, ep_i, ep_operations,
                   ep_response>>
    /\ OnlyEndpoint

\* A query of the batch returns its rows (async: its session is closed).
\* A query that its request no longer waits for goes on running.
query_returns(q) ==
    /\ ep_queries[q] = "running"
    /\ ep_queries' = [ep_queries EXCEPT ![q] = "done"]
    /\ UNCHANGED <<ep_pc, ep_kind, ep_subject, ep_count, ep_i, ep_operations,
                   ep_response>>
    /\ OnlyEndpoint

\* A query of the batch raises.
query_raises(q) ==
    /\ ep_queries[q] = "running"
    /\ ep_queries' = [ep_queries EXCEPT ![q] = "failed"]
    /\ UNCHANGED <<ep_pc, ep_kind, ep_subject, ep_count, ep_i, ep_operations,
                   ep_response>>
    /\ OnlyEndpoint

\* async: gather returns once the four coroutines have returned; the
\* results are consumed and operations += 4.
parallel_gather_returns ==
    /\ ep_pc = "batch"
    /\ ep_subject = "async"
    /\ \A q \in QueryNames : ep_queries[q] = "done"
    /\ ep_operations' = ep_operations + 4
    /\ ep_i' = ep_i + 1
    /\ ep_queries' = NoBatch
    /\ ep_pc' = "loop"
    /\ UNCHANGED <<ep_kind, ep_subject, ep_count, ep_response>>
    /\ OnlyEndpoint

\* async: gather (return_exceptions=False) re-raises the first exception
\* at once and cancels nothing; the handler has no except clause, so the
\* request ends as a server error.
parallel_gather_raises ==
    /\ ep_pc = "batch"
    /\ ep_subject = "async"
    /\ \E q \in QueryNames : ep_queries[q] = "failed"
    /\ ep_pc' = "failed"
    /\ UNCHANGED <<ep_kind, ep_subject, ep_count, ep_i, ep_operations,
                   ep_queries, ep_response>>
    /\ OnlyEndpoint

\* sync: future.result() returned for the four futures; operations += 4
\* and the with block is left (shutdown(wait=True): nothing to wait for).
parallel_results_return ==
    /\ ep_pc = "batch"
    /\ ep_subject = "sync"
    /\ \A q \in QueryNames : ep_queries[q] = "done"
    /\ ep_operations' = ep_operations + 4
    /\ ep_i' = ep_i + 1
    /\ ep_queries' = NoBatch
    /\ ep_pc' = "loop"
    /\ UNCHANGED <<ep_kind, ep_subject, ep_count, ep_response>>
    /\ OnlyEndpoint

\* sync: future.result() re-raises a query's exception; leaving the with
\* block waits for the pool's threads (shutdown(wait=True)) before the
\* exception leaves the handler.
parallel_result_raises ==
    /\ ep_pc = "batch"
    /\ ep_subject = "sync"
    /\ \A q \in QueryNames : Finished(q)
    /\ \E q \in QueryNames : ep_queries[q] = "failed"
    /\ ep_pc' = "failed"
    /\ UNCHANGED <<ep_kind, ep_subject, ep_count, ep_i, ep_operations,
                   ep_queries, ep_response>>
    /\ OnlyEndpoint

\* The loop is over: execution_time, operations_per_second, the body.
benchmark_return(execution_time) ==
    /\ ep_pc = "loop"
    /\ ep_i \notin range(ep_count)
    /\ ep_response' =
          benchmark_body(IF ep_kind = "benchmark"
                         THEN benchmark_operations(ep_count)
                         ELSE ep_operations,
                         execution_time)
    /\ ep_pc' = "done"
    /\ UNCHANGED <<ep_kind, ep_subject, ep_count, ep_i, ep_operations, ep_queries>>
    /\ OnlyEndpoint

EndpointNext ==
    \/ \E k \in EndpointKinds, s \in Subjects, c \in CountInputs :
          benchmark_request(k, s, c)
    \/ benchmark_iteration
    \/ complex_iteration
    \/ benchmark_raises
    \/ parallel_gather
    \/ parallel_executor
    \/ parallel_submit
    \/ \E q \in QueryNames : query_returns(q)
    \/ \E q \in QueryNames : query_raises(q)
    \/ parallel_gather_returns
    \/ parallel_gather_raises
    \/ parallel_results_return
    \/ parallel_result_raises
    \/ \E t \in ElapsedValues : benchmark_return(t)

(***************************************************************************)
(* analyze_results with every statistic it computes                        *)
(* (src/benchmark_test.py 142-188).  stdev, a square root, is left out.    *)
(***************************************************************************)
\* The execution times a server reports, in clock ticks.
MaxSample == 1

\* x <= y for finite x and y.
FLeq(x, y) == ~FGreater(x, y)

RECURSIVE fsum(_)
fsum(xs) == IF xs = <<>> THEN Num(0) ELSE FAdd(Head(xs), fsum(Tail(xs)))

\* statistics.mean of a non-empty list.
mean(xs) == FDiv(fsum(xs), Num(Len(xs)))

\* A minimum that is the first value.
min_First(xs) == xs[1]

RECURSIVE min(_)
\* min of a non-empty list.
min(xs) ==
    IF Len(xs) = 1 THEN xs[1]
    ELSE LET m == min(Tail(xs)) IN IF FGreater(m, xs[1]) THEN xs[1] ELSE m

RECURSIVE max(_)
\* max of a non-empty list.
max(xs) ==
    IF Len(xs) = 1 THEN xs[1]
    ELSE LET m == max(Tail(xs)) IN IF FGreater(xs[1], m) THEN xs[1] ELSE m

RECURSIVE insert(_, _)
\* x put at its place in the ascending list xs.
insert(x, xs) ==
    IF xs = <<>> THEN <<x>>
    ELSE IF FGreater(x, Head(xs)) THEN <<Head(xs)>> \o insert(x, Tail(xs))
    ELSE <<x>> \o xs

RECURSIVE sorted(_)
sorted(xs) == IF xs = <<>> THEN <<>> ELSE insert(Head(xs), sorted(Tail(xs)))

\* statistics.median of a non-empty list: the middle value of the sorted
\* data, or the mean of the two middle values.
median(xs) ==
    LET data == sorted(xs)
        n == Len(data)
    IN  IF n % 2 = 1 THEN data[(n \div 2) + 1]
        ELSE FDiv(FAdd(data[n \div 2], data[(n \div 2) + 1]), Num(2))

\* The dict of statistics of one field.
statistics(xs) ==
    [mean |-> mean(xs), median |-> median(xs), min |-> min(xs), max |-> max(xs)]

\* The sample a standard driver appends for a request of `count` that the
\* server ran in execution_time ticks; the client saw one tick more.
sample(count, execution_time) ==
    [count |-> count,
     db_execution_time |-> Num(execution_time),
     total_time |-> Num(execution_time + 1),
     operations_per_second |->
        operations_per_second(benchmark_operations(count), execution_time)]

RECURSIVE analyze_statistics_loop(_, _)
\* The loop of lines 146-186 from group i on.
analyze_statistics_loop(results, i) ==
    IF i > Len(results) THEN <<>>
    ELSE IF Len(results[i]) = 0 THEN analyze_statistics_loop(results, i + 1)
    ELSE LET count_results == results[i]
             count == count_results[1].count
             db_times == [j \in 1 .. Len(count_results) |->
                            count_results[j].db_execution_time]
             total_times == [j \in 1 .. Len(count_results) |->
                               count_results[j].total_time]
             ops_per_second == [j \in 1 .. Len(count_results) |->
                                  count_results[j].operations_per_second]
         IN  <<[count |-> count,
                operations |-> count * 2,
                iterations |-> Len(count_results),
                db_execution_time |-> statistics(db_times),
                total_time |-> statistics(total_times),
                operations_per_second |-> statistics(ops_per_second)]>>
             \o analyze_statistics_loop(results, i + 1)

analyze_results_statistics(results) == analyze_statistics_loop(results, 1)

\* The lists of samples a driver can have collected for one count: up to
\* standard_iterations samples.
Groups(count) ==
    UNION {[1 .. n -> {sample(count, t) : t \in 0 .. MaxSample}] :
             n \in 0 .. standard_iterations}

\* results: one group per count, for the first MaxEntries counts.
AnalyzeInit ==
    /\ cc_Idle
    /\ crud_Idle
    /\ bm_Idle
    /\ cmp_Idle
    /\ mx_Idle
    /\ ep_Idle
    /\ dr_Idle
    /\ an_results \in {r \in [1 .. MaxEntries -> UNION {Groups(standard_counts[k]) :
                                                        k \in 1 .. MaxEntries}] :
                          \A k \in 1 .. MaxEntries : r[k] \in Groups(standard_counts[k])}
    /\ an_analysis = NotAnalyzed

call_analyze_results ==
    /\ an_analysis = NotAnalyzed
    /\ an_analysis' = analyze_results_statistics(an_results)
    /\ UNCHANGED an_results
    /\ OnlyAnalyze

AnalyzeNext == call_analyze_results

(***************************************************************************)
(* The update and delete routes on populated tables                        *)
(***************************************************************************)
\* Both tables populated, both sequences past MaxId, no request in flight.
StoredInit ==
    /\ cc_Idle
    /\ bm_Idle
    /\ cmp_Idle
    /\ mx_Idle
    /\ ep_Idle
    /\ dr_Idle
    /\ an_Idle
    /\ db_users \in StoredUsers
    /\ db_products \in StoredProducts
    /\ db_user_seq = MaxId + 1
    /\ db_product_seq = MaxId + 1
    /\ crud_pending = [s \in Subjects |-> NoPending]
    /\ crud_last = NoRequest

(***************************************************************************)
(* The comparators on one pair of mean throughputs: generate_report on     *)
(* two one-entry analyses and analyze_advanced_results' per-count          *)
(* comparison on two one-key result dicts, each also with the two          *)
(* subjects' roles swapped.                                                *)
(***************************************************************************)
MaxMean == 4
\* The throughputs compared: 0 .. MaxMean and the pair 100 / 80.
MeanValues == (0 .. MaxMean) \cup {80, 100}

\* The analysis of one configuration (count 10) with the given mean.
one_entry_analysis(ops) ==
    <<[count |-> standard_counts[1],
       operations |-> standard_counts[1] * 2,
       mean |-> Num(ops)]>>

\* results["parallel"] with one count answered by both subjects.
one_key_results(async_ops, sync_ops) ==
    [async |-> <<[key |-> test_counts[1], val |-> Ok(async_ops)]>>,
     sync |-> <<[key |-> test_counts[1], val |-> Ok(sync_ops)]>>]

\* report["comparison"][0] of generate_report.
report_entry(async_ops, sync_ops) ==
    generate_report(one_entry_analysis(async_ops), one_entry_analysis(sync_ops),
                    "standard").comparison[1]

\* analysis["parallel"][count] of analyze_advanced_results.
analysis_entry(async_ops, sync_ops) ==
    DictGet(analyze_category(one_key_results(async_ops, sync_ops)).counts,
            test_counts[1])

CompareInit ==
    /\ cc_Idle
    /\ crud_Idle
    /\ bm_Idle
    /\ mx_Idle
    /\ ep_Idle
    /\ dr_Idle
    /\ an_Idle
    /\ cmp_async_ops \in MeanValues
    /\ cmp_sync_ops \in MeanValues
    /\ cmp_report = NotCompared
    /\ cmp_analysis = NotCompared
    /\ cmp_report_swapped = NotCompared
    /\ cmp_analysis_swapped = NotCompared

compare_generate_report ==
    /\ cmp_report = NotCompared
    /\ cmp_report' = report_entry(cmp_async_ops, cmp_sync_ops)
    /\ UNCHANGED <<cmp_async_ops, cmp_sync_ops, cmp_analysis,
                   cmp_report_swapped, cmp_analysis_swapped>>
    /\ OnlyCompare

compare_analyze_advanced_results ==
    /\ cmp_analysis = NotCompared
    /\ cmp_analysis' = analysis_entry(cmp_async_ops, cmp_sync_ops)
    /\ UNCHANGED <<cmp_async_ops, cmp_sync_ops, cmp_report,
                   cmp_report_swapped, cmp_analysis_swapped>>
    /\ OnlyCompare

compare_generate_report_swapped ==
    /\ cmp_report_swapped = NotCompared
    /\ cmp_report_swapped' = report_entry(cmp_sync_ops, cmp_async_ops)
    /\ UNCHANGED <<cmp_async_ops, cmp_sync_ops, cmp_report, cmp_analysis,
                   cmp_analysis_swapped>>
    /\ OnlyCompare

compare_analyze_advanced_results_swapped ==
    /\ cmp_analysis_swapped = NotCompared
    /\ cmp_analysis_swapped' = analysis_entry(cmp_sync_ops, cmp_async_ops)
    /\ UNCHANGED <<cmp_async_ops, cmp_sync_ops, cmp_report, cmp_analysis,
                   cmp_report_swapped>>
    /\ OnlyCompare

CompareNext ==
    \/ compare_generate_report
    \/ compare_analyze_advanced_results
    \/ compare_generate_report_swapped
    \/ compare_analyze_advanced_results_swapped

(***************************************************************************)
(* The sequential drivers on their own: run_async_tests,                   *)
(* run_async_mixed_tests, run_sync_tests, run_sync_mixed_tests             *)
(* (src/benchmark_test.py 19-137), with every request and its answer a     *)
(* step of its own.                                                        *)
(***************************************************************************)
\* The longest counts list and the largest iterations a driver is called with.
MaxCounts == 2
MaxIterations == 2
\* The counts a list is made of.
CountValues == {10, 50}

\* The lists of at most n counts.
RECURSIVE CountLists(_)
CountLists(n) ==
    IF n = 0 THEN {<<>>}
    ELSE CountLists(n - 1)
         \cup {Append(l, c) : l \in {l \in CountLists(n - 1) : Len(l) = n - 1},
                              c \in CountValues}

\* f"{base_url}/async/benchmark", ... : the endpoint a driver requests.
driver_url(name) ==
    "/" \o driver_subject(name) \o "/benchmark"
        \o (IF driver_mixed(name) THEN "/mixed" ELSE "")

\* A loop that runs one request more than it was asked for.
more_iterations_Inclusive(j, iterations) == j \in 0 .. iterations

\* for _ in range(iterations): there is an iteration after j of them.
more_iterations(j, iterations) == j \in range(iterations)

\* The driver is called: results = [].
call_driver(name, counts, iterations) ==
    /\ dr_pc = "idle"
    /\ dr_pc' = "loop"
    /\ dr_name' = name
    /\ dr_counts' = counts
    /\ dr_iterations' = iterations
    /\ dr_k' = 1
    /\ UNCHANGED <<dr_j, dr_sent, dr_in_flight, dr_count_results, dr_results>>
    /\ OnlyDriver

\* start_time = time.time(); the request is issued: session.get(url,
\* params={"count": count}) / requests.get(url, params=params).
driver_request ==
    /\ dr_pc = "loop"
    /\ dr_k \in 1 .. Len(dr_counts)
    /\ more_iterations(dr_j, dr_iterations)
    /\ dr_sent' = Append(dr_sent, [url |-> driver_url(dr_name),
                                   count |-> dr_counts[dr_k]])
    /\ dr_in_flight' = dr_in_flight \cup {Len(dr_sent) + 1}
    /\ dr_pc' = "awaiting"
    /\ UNCHANGED <<dr_name, dr_counts, dr_iterations, dr_k, dr_j,
                   dr_count_results, dr_results>>
    /\ OnlyDriver

\* The request is answered with a benchmark body: end_time, and the sample
\* is appended to count_results.  `request` stands for the values taken
\* from the answer (db_execution_time, operations_per_second, operations)
\* and for total_time: the request they belong to.
driver_answer ==
    /\ dr_pc = "awaiting"
    /\ \E r \in dr_in_flight :
          /\ dr_in_flight' = dr_in_flight \ {r}
          /\ dr_count_results' =
                Append(dr_count_results,
                       [count |-> dr_counts[dr_k],
                        request |-> r,
                        has_operations |-> driver_mixed(dr_name)])
    /\ dr_j' = dr_j + 1
    /\ dr_pc' = "loop"
    /\ UNCHANGED <<dr_name, dr_counts, dr_iterations, dr_k, dr_sent, dr_results>>
    /\ OnlyDriver

\* The request is answered with an error body (no "execution_time_seconds":
\* KeyError) or raises; the driver catches nothing.
driver_request_fails ==
    /\ dr_pc = "awaiting"
    /\ dr_in_flight' = {}
    /\ dr_pc' = "raised"
    /\ UNCHANGED <<dr_name, dr_counts, dr_iterations, dr_k, dr_j, dr_sent,
                   dr_count_results, dr_results>>
    /\ OnlyDriver

\* The inner loop is over: results.append(count_results); the next count
\* starts with count_results = [].
driver_next_count ==
    /\ dr_pc = "loop"
    /\ dr_k \in 1 .. Len(dr_counts)
    /\ ~more_iterations(dr_j, dr_iterations)
    /\ dr_results' = Append(dr_results, dr_count_results)
    /\ dr_count_results' = <<>>
    /\ dr_k' = dr_k + 1
    /\ dr_j' = 0
    /\ UNCHANGED <<dr_pc, dr_name, dr_counts, dr_iterations, dr_sent, dr_in_flight>>
    /\ OnlyDriver

\* The outer loop is over: return results.
driver_return ==
    /\ dr_pc = "loop"
    /\ dr_k \notin 1 .. Len(dr_counts)
    /\ dr_pc' = "returned"
    /\ UNCHANGED <<dr_name, dr_counts, dr_iterations, dr_k, dr_j, dr_sent,
                   dr_in_flight, dr_count_results, dr_results>>
    /\ OnlyDriver

DriverNext ==
    \/ \E n \in DriverNames, c \in CountLists(MaxCounts), i \in 0 .. MaxIterations :
          call_driver(n, c, i)
    \/ driver_request
    \/ driver_answer
    \/ driver_request_fails
    \/ driver_next_count
    \/ driver_return

(***************************************************************************)
(* Specifications: one per part of the program.                            *)
(***************************************************************************)
\* Every part idle: no request served yet, empty tables.
AllIdle ==
    /\ cc_Idle /\ crud_Idle /\ bm_Idle /\ cmp_Idle /\ mx_Idle /\ ep_Idle /\ an_Idle
    /\ dr_Idle

SpecConcurrent == AllIdle /\ [][ConcurrentNext]_vars

\* What the scheduling guarantees: the event loop runs every ready task, the
\* operating system every runnable thread, and the database answers every
\* statement; a statement that raises and the pool's timeout are faults,
\* and nothing forces them.
ConcurrentFairness ==
    /\ WF_vars(async_gather_start)
    /\ WF_vars(sync_thread_start)
    /\ WF_vars(sync_spawn_done)
    /\ \A w \in WorkerIds :
          /\ WF_vars(db_task_iteration(w))
          /\ WF_vars(db_task_return(w))
          /\ WF_vars(results_append(w))
    /\ WF_vars(async_gather_return)
    /\ WF_vars(async_gather_raises)
    /\ WF_vars(sync_join_return)

SpecConcurrentFair == AllIdle /\ [][ConcurrentNext]_vars /\ ConcurrentFairness

SpecCrud == AllIdle /\ [][CrudNext]_vars

SpecBenchmark == BenchmarkInit /\ [][BenchmarkNext]_vars

SpecCompare == CompareInit /\ [][CompareNext]_vars

SpecMixed == MixedInit /\ [][MixedNext]_vars

SpecMixedAlone == MixedInit /\ [][MixedAloneNext]_vars

SpecDriver == AllIdle /\ [][DriverNext]_vars

SpecEndpoint == AllIdle /\ [][EndpointNext]_vars

SpecAnalyze == AnalyzeInit /\ [][AnalyzeNext]_vars

SpecUpdateDelete == StoredInit /\ [][UpdateDeleteNext]_vars

(***************************************************************************)
(* Claims about /benchmark/concurrent                                      *)
(***************************************************************************)

\* C1 (as claimed): a concurrent benchmark request with concurrency <= 0
\* never returns a success response and starts no worker.
C1_NonPositiveConcurrencyFails ==
    (cc_pc # "idle" /\ cc_concurrency <= 0) =>
        /\ cc_pc # "done"
        /\ cc_response.status # 200
        /\ \A w \in WorkerIds : ~Started(w)

\* floor(count / concurrency), stated without the division: the only q
\* with q * concurrency <= count < (q + 1) * concurrency.
IsFloorShare(q, count, concurrency) ==
    /\ q * concurrency <= count
    /\ count < (q + 1) * concurrency

RECURSIVE ItersOf(_)
\* The iterations run so far by the tasks 0 .. n-1.
ItersOf(n) == IF n <= 0 THEN 0 ELSE cc_workers[n - 1].iters + ItersOf(n - 1)

\* C5: for count >= 0 and concurrency >= 1 exactly `concurrency` workers are
\* started, a worker never runs more than floor(count / concurrency)
\* iterations and returns after exactly that many, so the
\* count mod concurrency remainder iterations are run by no worker.
C5_SharesAreFloorDivision ==
    (cc_pc # "idle" /\ cc_count >= 0 /\ cc_concurrency >= 1) =>
        /\ \A w \in WorkerIds : Started(w) => w \in range(cc_concurrency)
        /\ cc_pc \in {"joining", "done", "failed"} =>
              Cardinality({w \in WorkerIds : Started(w)}) = cc_concurrency
        /\ \A w \in WorkerIds :
              /\ cc_workers[w].iters * cc_concurrency <= cc_count
              /\ cc_workers[w].task_operations = 3 * cc_workers[w].iters
              /\ cc_workers[w].st = "done" =>
                    IsFloorShare(cc_workers[w].iters, cc_count, cc_concurrency)
        /\ ItersOf(cc_concurrency) <= cc_count - (cc_count % cc_concurrency)
        /\ (\A w \in range(cc_concurrency) : cc_workers[w].st = "done") =>
              ItersOf(cc_concurrency) = cc_count - (cc_count % cc_concurrency)

\* C5 witness: count = 3, concurrency = 2: both workers returned after one
\* iteration each and the response is out; one iteration was dropped.
C5_Witness ==
    /\ cc_pc = "done"
    /\ cc_count = 3
    /\ cc_concurrency = 2
    /\ \A w \in range(2) : cc_workers[w].st = "done" /\ cc_workers[w].iters = 1

(***************************************************************************)
(* Claims about /users and /products                                       *)
(***************************************************************************)

\* C4 (as claimed): a create or update request whose username, email or sku
\* equals that of another stored row is answered with a 4xx domain error,
\* never with the raw constraint violation, and leaves the rows unchanged.
C4_CollisionIsDomainError ==
    (/\ crud_last.op \in {"create_user", "update_user",
                          "create_product", "update_product"}
     /\ crud_last.collides # {}) =>
        /\ crud_last.status \in 400 .. 499
        /\ crud_last.detail # "IntegrityError"
        /\ ~crud_last.changed

(***************************************************************************)
(* Claims about the comparators and the report of the benchmark script     *)
(***************************************************************************)
\* The reports generate_report has returned in this state.
Reports ==
    (IF gr_pc = "returned" THEN {gr_report} ELSE {})
    \cup {m_reports[t] : t \in {t \in {"standard", "mixed"} : m_reports[t] # Unassigned}}

\* analyze_advanced_results has returned.
AdvAnalyzed ==
    /\ adv_pc \in {"analyzed", "reported", "raised"}
    /\ ~adv_analysis.raised

\* The values of a dict, in order.
ValuesOf(d) == [i \in 1 .. Len(d) |-> d[i].val]

\* The comparison entries of one category of advanced_analysis.
AdvEntries(category) ==
    IF category = "concurrent"
    THEN concurrent_entries(adv_analysis[category].counts, 1)
    ELSE ValuesOf(adv_analysis[category].counts)

\* The counters analyze_advanced_results ends with for one category.
AdvTally(category) ==
    IF category = "concurrent"
    THEN concurrent_tally(adv_results[category]).tally
    ELSE analyze_counts_loop(adv_results[category]["async"],
                             adv_results[category]["sync"], 1,
                             [raised |-> FALSE, tally |-> NoTally,
                              entries |-> <<>>]).tally

IsSentinel(a, s, diff) ==
    (s = Num(0)) => (diff = IF a[1] > 0 THEN Num(100) ELSE Num(0))

\* C6 (as claimed): in every comparator, generate_report as well as
\* analyze_advanced_results, an entry whose sync mean throughput is 0 reports
\* the percentage difference 100 if the async mean throughput is positive and
\* 0 otherwise.
C6_ZeroSyncSentinel ==
    /\ \A r \in Reports : \A i \in 1 .. Len(r.comparison) :
           IsSentinel(r.comparison[i].async_ops_per_second,
                      r.comparison[i].sync_ops_per_second,
                      r.comparison[i].performance_difference_percent)
    /\ AdvAnalyzed =>
           \A c \in Categories : \A i \in 1 .. Len(AdvEntries(c)) :
               IsSentinel(AdvEntries(c)[i].async, AdvEntries(c)[i].sync,
                          AdvEntries(c)[i].percentage_diff)

\* The entries of analysis["concurrent"] of one concurrency level.
LevelEntries(concurrency) ==
    LET counts == adv_analysis["concurrent"].counts
    IN  {<<i, j>> \in (1 .. Len(counts)) \X (1 .. Len(concurrency_levels)) :
            j <= Len(counts[i].val) /\ counts[i].val[j].key = concurrency}

TieGoesToB(async_wins, sync_wins, n, overall, a, b) ==
    /\ async_wins + sync_wins = n
    /\ overall = IF async_wins > sync_wins THEN a ELSE b

\* As TieGoesToB, except that no comparison at all gives "unknown".
TieGoesToBOrUnknown(async_wins, sync_wins, n, overall, a, b) ==
    /\ async_wins + sync_wins = n
    /\ overall = IF n = 0 THEN "unknown"
                 ELSE IF async_wins > sync_wins THEN a ELSE b

\* The rollups of generate_report.
ReportRollups ==
    \A r \in Reports :
        TieGoesToB(r.summary.async_wins, r.summary.sync_wins, Len(r.comparison),
                   r.summary.overall_faster, "async", "sync")

\* The rollups of analyze_advanced_results per concurrency level; a level has
\* a rollup only once it has a comparison.
LevelRollups ==
    LET levels == adv_analysis["concurrent"].concurrency_analysis
    IN  \A j \in 1 .. Len(levels) :
            /\ Cardinality(LevelEntries(levels[j].key)) > 0
            /\ TieGoesToB(levels[j].val.async_wins, levels[j].val.sync_wins,
                          Cardinality(LevelEntries(levels[j].key)),
                          levels[j].val.overall_faster, "asyncpg", "psycopg2")

\* C7 (as claimed): in every rollup async_wins + sync_wins is the number of
\* comparison entries, and the overall winner is async iff async has strictly
\* more wins; on a tie, zero comparisons included, it is sync.
C7_TieGoesToSync ==
    /\ ReportRollups
    /\ AdvAnalyzed =>
         /\ \A c \in Categories :
                TieGoesToB(AdvTally(c).async_wins, AdvTally(c).sync_wins,
                           Len(AdvEntries(c)), adv_analysis[c].overall_faster,
                           "asyncpg", "psycopg2")
         /\ LevelRollups

\* C7 (amended): in every rollup async_wins + sync_wins is the number of
\* comparison entries.  With at least one comparison the overall winner is
\* async iff async has strictly more wins, and sync otherwise.  With zero
\* comparisons generate_report names sync, while analyze_advanced_results
\* names "unknown" for the category; a concurrency level has a rollup only
\* once it has a comparison.
C7_TieGoesToSyncOrUnknown ==
    /\ ReportRollups
    /\ AdvAnalyzed =>
         /\ \A c \in Categories :
                TieGoesToBOrUnknown(AdvTally(c).async_wins, AdvTally(c).sync_wins,
                                    Len(AdvEntries(c)), adv_analysis[c].overall_faster,
                                    "asyncpg", "psycopg2")
         /\ LevelRollups

\* C7 witness: generate_report returned a summary with as many async wins as
\* sync wins, at least one each, and named sync.
C7_Witness ==
    /\ gr_pc = "returned"
    /\ gr_report.summary.async_wins = gr_report.summary.sync_wins
    /\ gr_report.summary.async_wins >= 1
    /\ gr_report.summary.overall_faster = "sync"

\* The sum of the percentage differences of a sequence of them.
RECURSIVE SumOf(_, _)
SumOf(diffs, i) ==
    IF i > Len(diffs) THEN Num(0) ELSE FAdd(diffs[i], SumOf(diffs, i + 1))

MeanOf(diffs) ==
    IF Len(diffs) = 0 THEN Num(0) ELSE FDiv(SumOf(diffs, 1), Num(Len(diffs)))

\* C8 (as claimed): generate_advanced_report returns for every analysis of
\* analyze_advanced_results, and in each category's summary
\* asyncpg_faster_count + psycopg2_faster_count = total_tests = the number of
\* compared configurations, avg_percentage_diff being the mean of the
\* absolute percentage differences.
C8_AdvancedReportReturns ==
    (adv_pc \in {"reported", "raised"} /\ ~adv_analysis.raised) =>
        /\ adv_pc = "reported"
        /\ \A c \in Categories :
             LET summary == adv_report[c].summary
                 entries == AdvEntries(c)
             IN  /\ summary.asyncpg_faster_count + summary.psycopg2_faster_count
                        = summary.total_tests
                 /\ summary.total_tests = Len(entries)
                 /\ summary.avg_percentage_diff =
                        MeanOf([i \in 1 .. Len(entries) |->
                                   FAbs(entries[i].percentage_diff)])

\* The places <<i, j>> of the items of the dicts of a dict of dicts.
Places(d) ==
    {p \in (1 .. Len(d)) \X (1 .. Len(concurrency_levels)) : p[2] <= Len(d[p[1]].val)}

\* The keys of one side of results[category] with a result that is no error
\* marker: counts, or <<count, concurrency>> for "concurrent".
ComparableKeys(category, subject) ==
    LET d == adv_results[category][subject]
    IN  IF category = "concurrent"
        THEN {<<d[p[1]].key, d[p[1]].val[p[2]].key>> :
                 p \in {q \in Places(d) : ~HasError(d[q[1]].val[q[2]].val)}}
        ELSE {d[i].key : i \in {i \in 1 .. Len(d) : ~HasError(d[i].val)}}

\* The keys analysis[category] has a comparison entry for.
ComparedKeys(category) ==
    LET counts == adv_analysis[category].counts
    IN  IF category = "concurrent"
        THEN {<<counts[p[1]].key, counts[p[1]].val[p[2]].key>> : p \in Places(counts)}
        ELSE DictKeys(counts)

\* C9: a comparison entry is emitted for exactly the keys for which both
\* subjects have a result that is no error marker; a key absent on the sync
\* side and a key with an error marker on either side give no entry, no win
\* and no share of the sum of differences: the wins add up to the number of
\* entries and the average is the mean of the entries' differences.
C9_OnlyComparableKeys ==
    /\ gr_pc = "returned" =>
         LET both == SelectSeq(gr_async_analysis,
                       LAMBDA e : \E j \in 1 .. Len(gr_sync_analysis) :
                                      gr_sync_analysis[j].count = e.count)
             comparison == gr_report.comparison
         IN  /\ [i \in 1 .. Len(comparison) |-> comparison[i].count]
                    = [i \in 1 .. Len(both) |-> both[i].count]
             /\ gr_report.summary.async_wins + gr_report.summary.sync_wins = Len(both)
             /\ gr_report.summary.avg_percentage_diff =
                    MeanOf([i \in 1 .. Len(comparison) |->
                               comparison[i].performance_difference_percent])
    /\ AdvAnalyzed =>
         \A c \in Categories :
             /\ ComparedKeys(c) = ComparableKeys(c, "async") \cap ComparableKeys(c, "sync")
             /\ AdvTally(c).async_wins + AdvTally(c).sync_wins
                    = Cardinality(ComparedKeys(c))
             /\ Len(AdvEntries(c)) = Cardinality(ComparedKeys(c))
             /\ adv_analysis[c].avg_percentage_diff =
                    MeanOf([i \in 1 .. Len(AdvEntries(c)) |->
                               AdvEntries(c)[i].percentage_diff])

\* C9 witness: the parallel configuration has a result on the async side and
\* an error marker on the sync side and got no entry, while the complex
\* configuration was compared.
C9_Witness ==
    /\ AdvAnalyzed
    /\ ~HasError(adv_results["parallel"]["async"][1].val)
    /\ HasError(adv_results["parallel"]["sync"][1].val)
    /\ Len(adv_analysis["parallel"].counts) = 0
    /\ Len(adv_analysis["complex"].counts) = 1

\* A > B for the throughputs of an entry.
StrictlyGreater(a, s) == a[1] * s[2] > s[1] * a[2]

\* C10: the winner of a comparison entry is async iff the async mean
\* throughput is strictly greater than the sync one, and sync in every other
\* case; with both throughputs 0 the percentage difference is 0.
C10_WinnerIsStrictlyFaster ==
    /\ \A r \in Reports : \A i \in 1 .. Len(r.comparison) :
         LET e == r.comparison[i]
         IN  /\ e.faster = IF StrictlyGreater(e.async_ops_per_second,
                                              e.sync_ops_per_second)
                           THEN "async" ELSE "sync"
             /\ (e.async_ops_per_second = Num(0) /\ e.sync_ops_per_second = Num(0))
                    => e.performance_difference_percent = Num(0)
    /\ AdvAnalyzed =>
         \A c \in Categories : \A i \in 1 .. Len(AdvEntries(c)) :
             LET e == AdvEntries(c)[i]
             IN  /\ e.faster = IF StrictlyGreater(e.async, e.sync)
                               THEN "asyncpg" ELSE "psycopg2"
                 /\ (e.async = Num(0) /\ e.sync = Num(0)) => e.percentage_diff = Num(0)

\* C10 witness: generate_report returned an entry for equal positive
\* throughputs and one for two zero throughputs, both won by sync.
C10_Witness ==
    /\ gr_pc = "returned"
    /\ \E i \in 1 .. Len(gr_report.comparison) :
           /\ gr_report.comparison[i].async_ops_per_second = Num(1)
           /\ gr_report.comparison[i].sync_ops_per_second = Num(1)
           /\ gr_report.comparison[i].faster = "sync"
    /\ \E i \in 1 .. Len(gr_report.comparison) :
           /\ gr_report.comparison[i].async_ops_per_second = Num(0)
           /\ gr_report.comparison[i].sync_ops_per_second = Num(0)
           /\ gr_report.comparison[i].performance_difference_percent = Num(0)
           /\ gr_report.comparison[i].faster = "sync"

(***************************************************************************)
(* Claims about main and the drivers                                       *)
(***************************************************************************)
\* The counts a report of generate_report has a comparison entry for.
ReportCounts(report) ==
    [i \in 1 .. Len(report.comparison) |-> report.comparison[i].count]

\* analysis[category] of the persisted report has an entry for the key of
\* a configuration.
HasEntry(results, cfg) ==
    /\ DictHas(results.counts, cfg.count)
    /\ cfg.category = "concurrent" =>
           DictHas(DictGet(results.counts, cfg.count), cfg.concurrency)

\* C2 (as claimed): once main has saved benchmark_report.json, the file has
\* all five categories and an entry for every configuration main attempted:
\* every standard count, every mixed count and every configuration of
\* run_advanced_benchmarks.
C2_ReportCoversEveryConfiguration ==
    m_pc = "saved" =>
        /\ report_file.written
        /\ ReportCounts(report_file.standard) = standard_counts
        /\ ReportCounts(report_file.mixed) = mixed_counts
        /\ report_file.has_advanced
        /\ \A k \in 1 .. Len(AdvancedConfigs) :
               HasEntry(report_file.advanced[AdvancedConfigs[k].category].results,
                        AdvancedConfigs[k])

\* results of run_advanced_benchmarks holds a result or an error marker of a
\* subject for a configuration.
HasResult(cfg, subject) ==
    LET d == adv_results[cfg.category][subject]
    IN  /\ DictHas(d, cfg.count)
        /\ cfg.category = "concurrent" => DictHas(DictGet(d, cfg.count), cfg.concurrency)

\* C3 (as claimed): a failed request never ends a driver: no sequential
\* driver is left by an exception (and main with it), and every
\* configuration run_advanced_benchmarks is past has a result or an error
\* marker on both sides.
C3_FailedRequestIsRecorded ==
    /\ drv.pc # "raised"
    /\ m_pc # "crashed"
    /\ \A k \in 1 .. Len(AdvancedConfigs) :
           (adv_pc # "idle" /\ k < adv_i) =>
               \A s \in Subjects : HasResult(AdvancedConfigs[k], s)

(***************************************************************************)
(* Claims about the percentage difference                                  *)
(***************************************************************************)
\* The comparisons made so far, by role: a is the throughput passed on the
\* async side (A), b the one passed on the sync side (B).
ReportComparisons ==
    (IF cmp_report = NotCompared THEN {}
     ELSE {[a |-> cmp_async_ops, b |-> cmp_sync_ops,
            diff |-> cmp_report.performance_difference_percent,
            a_faster |-> cmp_report.faster = "async"]})
    \cup
    (IF cmp_report_swapped = NotCompared THEN {}
     ELSE {[a |-> cmp_sync_ops, b |-> cmp_async_ops,
            diff |-> cmp_report_swapped.performance_difference_percent,
            a_faster |-> cmp_report_swapped.faster = "async"]})

AnalysisComparisons ==
    (IF cmp_analysis = NotCompared THEN {}
     ELSE {[a |-> cmp_async_ops, b |-> cmp_sync_ops,
            diff |-> cmp_analysis.percentage_diff,
            a_faster |-> cmp_analysis.faster = "asyncpg"]})
    \cup
    (IF cmp_analysis_swapped = NotCompared THEN {}
     ELSE {[a |-> cmp_sync_ops, b |-> cmp_async_ops,
            diff |-> cmp_analysis_swapped.percentage_diff,
            a_faster |-> cmp_analysis_swapped.faster = "asyncpg"]})

Comparisons == ReportComparisons \cup AnalysisComparisons

\* C11: whenever the sync-side mean B is positive, every comparator reports
\* the difference diff with diff * B = (A - B) * 100, i.e. relative to B;
\* A = 100 and B = 80 give exactly 25 with A the winner.
C11_DiffIsRelativeToSync ==
    \A c \in Comparisons :
        /\ c.b > 0 =>
              /\ ~IsInf(c.diff)
              /\ FMul(c.diff, Num(c.b)) = FMul(Num(c.a - c.b), Num(100))
        /\ (c.a = 100 /\ c.b = 80) => (c.diff = Num(25) /\ c.a_faster)

\* Both comparators have compared A = 100 with B = 80.
C11_Witness ==
    /\ cmp_async_ops = 100
    /\ cmp_sync_ops = 80
    /\ cmp_report # NotCompared
    /\ cmp_analysis # NotCompared
    /\ cmp_report.performance_difference_percent = Num(25)
    /\ cmp_analysis.percentage_diff = Num(25)

\* C18: for A > 0, B > 0 and A # B the difference is not antisymmetric:
\* diff(A, B) # -diff(B, A) in both comparators; the two only cancel
\* when A = B.
C18_DiffIsNotAntisymmetric ==
    /\ (cmp_report # NotCompared /\ cmp_report_swapped # NotCompared
          /\ cmp_async_ops > 0 /\ cmp_sync_ops > 0) =>
           ((FAdd(cmp_report.performance_difference_percent,
                  cmp_report_swapped.performance_difference_percent) = Num(0))
             <=> cmp_async_ops = cmp_sync_ops)
    /\ (cmp_analysis # NotCompared /\ cmp_analysis_swapped # NotCompared
          /\ cmp_async_ops > 0 /\ cmp_sync_ops > 0) =>
           ((FAdd(cmp_analysis.percentage_diff,
                  cmp_analysis_swapped.percentage_diff) = Num(0))
             <=> cmp_async_ops = cmp_sync_ops)

\* 100 against 80 compared both ways round: +25 one way, -20 the other.
C18_Witness ==
    /\ cmp_async_ops = 100
    /\ cmp_sync_ops = 80
    /\ cmp_report # NotCompared
    /\ cmp_report_swapped # NotCompared
    /\ cmp_analysis # NotCompared
    /\ cmp_analysis_swapped # NotCompared
    /\ cmp_report_swapped.performance_difference_percent = Num(-20)
    /\ cmp_analysis_swapped.percentage_diff = Num(-20)

(***************************************************************************)
(* Claims about update and delete of a missing row                         *)
(***************************************************************************)
\* What C14 asks of one step of the CRUD routes.
C14_Step ==
    /\ \A s \in Subjects, i \in Ids :
          /\ (i \notin DOMAIN db_users
               /\ \/ \E u \in Usernames \cup {None}, e \in Emails \cup {None} :
                        update_user(s, i, u, e)
                  \/ delete_user(s, i))
              => /\ crud_last'.status = 404
                 /\ UNCHANGED <<db_users, db_products>>
          /\ (i \notin DOMAIN db_products
               /\ \/ \E k \in Skus \cup {None} : update_product(s, i, k)
                  \/ delete_product(s, i))
              => /\ crud_last'.status = 404
                 /\ UNCHANGED <<db_users, db_products>>
          /\ (i \in DOMAIN db_users /\ delete_user(s, i))
              => /\ crud_last'.status = 200
                 /\ i \notin DOMAIN db_users'
          /\ (i \in DOMAIN db_products /\ delete_product(s, i))
              => /\ crud_last'.status = 200
                 /\ i \notin DOMAIN db_products'
    \* a deleted id never comes back: new rows get ids the sequence has
    \* not handed out before
    /\ \A i \in DOMAIN db_users' \ DOMAIN db_users :
          i >= db_user_seq /\ i < db_user_seq'
    /\ \A i \in DOMAIN db_products' \ DOMAIN db_products :
          i >= db_product_seq /\ i < db_product_seq'

\* What C14 asks of every state: the stored ids are ids the sequences have
\* handed out, and a 404 on update or delete changed nothing.
C14_State ==
    /\ \A i \in DOMAIN db_users : i < db_user_seq
    /\ \A i \in DOMAIN db_products : i < db_product_seq
    /\ (crud_last.op \in {"update_user", "delete_user",
                          "update_product", "delete_product"}
         /\ crud_last.status = 404) => ~crud_last.changed

\* C14: an update or delete of /users/{id} or /products/{id} for an id that
\* is not stored answers 404 and leaves every row as it was; a successful
\* delete removes the row and its id is never stored again, so a second
\* delete or an update of that id answers 404.
C14_MissingRowIsNotFound == []C14_State /\ [][C14_Step]_vars

\* Every stored user was deleted, and a later delete of a user was
\* answered 404.
C14_Witness ==
    /\ DOMAIN db_users = {}
    /\ crud_last.op = "delete_user"
    /\ crud_last.status = 404
    /\ crud_last.detail = "User not found"

(***************************************************************************)
(* Claims about /benchmark/mixed                                           *)
(***************************************************************************)
\* What an iteration of the log has added to the counter: 2 for a create
\* or read iteration, 1 per update or delete sub-operation that found its
\* row (0 in the log stands for "no row").
Performed(e) ==
    IF e.branch \in {"create", "read"} THEN 2
    ELSE (IF e.user # 0 THEN 1 ELSE 0) + (IF e.product # 0 THEN 1 ELSE 0)

RECURSIVE PerformedUpTo(_)
PerformedUpTo(n) == IF n = 0 THEN 0 ELSE PerformedUpTo(n - 1) + Performed(mx_log[n])

\* What C12 asks of every state.
C12_State ==
    /\ mx_operations = PerformedUpTo(Len(mx_log))
    /\ mx_operations >= 0
    /\ mx_operations <= 2 * Len(mx_log)
    /\ mx_step = "user" => (Len(mx_log) = mx_i /\ mx_operations <= 2 * mx_i)
    /\ mx_step = "product" => Len(mx_log) = mx_i + 1
    /\ mx_pc = "done" =>
          /\ mx_response.status = 200
          /\ mx_response.operations = mx_operations
          /\ mx_count >= 0 => mx_response.operations <= 2 * mx_count

\* What C12 asks of every step of the handler: a sub-operation finds no row
\* exactly when its table is empty, and then it changes neither the counter
\* nor a table and the request goes on; one that finds its row adds 1; a
\* create or read iteration adds 2.
C12_Step ==
    /\ (mx_step = "user" /\ mx_step' = "product") =>
          LET e == mx_log'[Len(mx_log')]
          IN  /\ mx_pc' = "running"
              /\ e.user = 0 <=> DOMAIN db_users = {}
              /\ IF e.user = 0
                 THEN UNCHANGED <<mx_operations, db_users, db_products>>
                 ELSE mx_operations' = mx_operations + 1
    /\ (mx_step = "product" /\ mx_step' = "user") =>
          LET e == mx_log'[Len(mx_log')]
          IN  /\ mx_pc' = "running"
              /\ e.product = 0 <=> DOMAIN db_products = {}
              /\ IF e.product = 0
                 THEN UNCHANGED <<mx_operations, db_users, db_products>>
                 ELSE mx_operations' = mx_operations + 1
    /\ (mx_step = "user" /\ mx_i' = mx_i + 1) =>
          /\ mx_pc' = "running"
          /\ mx_operations' = mx_operations + 2

Expected(i) == <<"create", "read", "update", "delete">>[(i % 4) + 1]
InBucket(kind, n) ==
    Cardinality({k \in 1 .. Len(mx_log) : k <= n /\ mx_log[k].branch = kind})

\* C13: the mixed benchmark runs its iterations in increasing i, iteration
\* i taking the create, read, update or delete branch for i % 4 = 0, 1, 2,
\* 3; a completed request has run, in each bucket r, as many iterations as
\* there are i < count with i % 4 = r (2 each for count = 8).
C13_BucketsCycleModuloFour ==
    /\ \A k \in 1 .. Len(mx_log) :
          /\ mx_log[k].i = k - 1
          /\ mx_log[k].branch = Expected(k - 1)
    /\ mx_pc = "done" =>
          /\ Len(mx_log) = Cardinality(range(mx_count))
          /\ \A r \in 0 .. 3 :
                InBucket(Expected(r), Len(mx_log))
                  = Cardinality({i \in range(mx_count) : i % 4 = r})
          /\ mx_count = 8 =>
                \A kind \in {"create", "read", "update", "delete"} :
                    InBucket(kind, 8) = 2

\* A request with count = 8 has run all its iterations.
C13_Witness ==
    /\ mx_pc = "done"
    /\ mx_count = 8
    /\ Len(mx_log) = 8
    /\ mx_log[8].branch = "delete"

(***************************************************************************)
(* Claims about the responses of the benchmark endpoints                   *)
(***************************************************************************)
\* The success bodies built so far that carry a throughput.
SuccessBodies ==
    (IF ep_pc = "done" THEN {ep_response} ELSE {})
    \cup (IF mx_pc = "done" THEN {mx_response} ELSE {})

\* C15 (as claimed): every success response of a benchmark endpoint has
\* operations >= 0 and operations_per_second >= 0, for every integer count
\* the endpoint accepts.
C15_FieldsAreNonNegative ==
    /\ \A r \in SuccessBodies :
          /\ r.operations >= 0
          /\ r.operations_per_second[1] >= 0
    /\ cc_pc = "done" => cc_response.operations >= 0

\* The operations one iteration of each read-only benchmark stands for.
PerIteration(kind) ==
    IF kind = "benchmark" THEN 2 ELSE IF kind = "parallel" THEN 4 ELSE 3

\* C16: for count >= 0 a run without failure reports operations of exactly
\* 2 * count (/benchmark), 4 * count (/benchmark/parallel) and 3 * count
\* (/benchmark/complex), in both subjects.
C16_OperationsPerIteration ==
    (ep_pc = "done" /\ ep_count >= 0) =>
        /\ ep_i = ep_count
        /\ ep_response.status = 200
        /\ ep_response.operations = PerIteration(ep_kind) * ep_count

\* The sync parallel benchmark with count = 3 reported 12 operations.
C16_Witness ==
    /\ ep_pc = "done"
    /\ ep_kind = "parallel"
    /\ ep_subject = "sync"
    /\ ep_count = 3
    /\ ep_response.operations = 12

\* C20 (as claimed): in the parallel endpoints an iteration launches its 4
\* queries, all 4 have completed before the next iteration launches a
\* query and before the end timestamp is taken, and no query of the
\* request is still running when the response is built.
C20_BatchIsJoined ==
    ep_kind = "parallel" =>
        /\ ep_pc = "loop" => ep_queries = NoBatch
        /\ ep_pc = "done" => ep_queries = NoBatch
        /\ ep_pc \in {"done", "failed"} =>
              \A q \in QueryNames : ep_queries[q] # "running"

(***************************************************************************)
(* Claims about the timing of /benchmark/concurrent                        *)
(***************************************************************************)
RECURSIVE ReturnedUpTo(_)
\* The sum of the counts returned by the workers 0 .. n-1.
ReturnedUpTo(n) ==
    IF n <= 0 THEN 0
    ELSE ReturnedUpTo(n - 1)
         + (IF cc_workers[n - 1].st = "done"
            THEN cc_workers[n - 1].task_operations ELSE 0)

\* Every worker of the request has returned its count.
AllReturned == \A w \in range(cc_concurrency) : cc_workers[w].st = "done"

\* What C19 asks of every state: no worker exists before the start
\* timestamp is taken (the request's first statement); once the end
\* timestamp is taken every worker has returned or died, and the reported
\* operations is the sum of the returned counts.
C19_State ==
    /\ cc_pc = "idle" => \A w \in WorkerIds : cc_workers[w].st = "none"
    /\ cc_pc = "done" =>
          /\ \A w \in range(cc_concurrency) :
                cc_workers[w].st \in {"done", "failed"}
          /\ cc_response.operations = ReturnedUpTo(cc_concurrency)
          /\ (cc_count >= 0 /\ cc_concurrency >= 1 /\ AllReturned) =>
                \E q \in 0 .. (MaxCount + 1) :
                    /\ IsFloorShare(q, cc_count, cc_concurrency)
                    /\ cc_response.operations = 3 * cc_concurrency * q

\* What C19 asks of every step: a worker starts only after the start
\* timestamp; the step that takes the end timestamp finds every worker
\* terminated and no worker moves afterwards.
C19_Step ==
    /\ (\E w \in WorkerIds : cc_workers[w].st = "none" /\ cc_workers'[w].st # "none")
          => cc_pc = "spawning"
    /\ (cc_pc # "done" /\ cc_pc' = "done") =>
          \A w \in range(cc_concurrency) : cc_workers[w].st \in {"done", "failed"}
    /\ cc_pc = "done" => UNCHANGED <<cc_workers, cc_response>>

\* C19: in the concurrent endpoints the start timestamp is taken before
\* any worker starts, the end timestamp only after every one of the
\* `concurrency` workers has terminated, and the reported operations is
\* the sum of the counts the workers returned:
\* 3 * concurrency * floor(count / concurrency) when none failed
\* (count >= 0, concurrency >= 1).
C19_TimerSpansAllWorkers == []C19_State /\ [][C19_Step]_vars

\* count = 4, concurrency = 2: both workers returned 6 and the response
\* reports 12.
C19_Witness ==
    /\ cc_pc = "done"
    /\ cc_count = 4
    /\ cc_concurrency = 2
    /\ \A w \in range(2) : cc_workers[w].st = "done"
    /\ cc_response.operations = 12

(***************************************************************************)
(* Claims about analyze_results                                            *)
(***************************************************************************)
\* min <= mean <= max and min <= median <= max.
Ordered(st) ==
    /\ FLeq(st.min, st.mean) /\ FLeq(st.mean, st.max)
    /\ FLeq(st.min, st.median) /\ FLeq(st.median, st.max)

\* The counts of the non-empty groups of results, in input order.
RECURSIVE NonEmptyCounts(_)
NonEmptyCounts(n) ==
    IF n = 0 THEN <<>>
    ELSE NonEmptyCounts(n - 1)
         \o (IF Len(an_results[n]) > 0 THEN <<an_results[n][1].count>> ELSE <<>>)

\* C17: analyze_results returns exactly one aggregate per non-empty group,
\* in input order, and none for an empty group; in every aggregate
\* min <= mean <= max and min <= median <= max hold for db_execution_time,
\* total_time and operations_per_second.
C17_AggregatesAreOrdered ==
    an_analysis # NotAnalyzed =>
        /\ [k \in 1 .. Len(an_analysis) |-> an_analysis[k].count]
              = NonEmptyCounts(Len(an_results))
        /\ \A k \in 1 .. Len(an_analysis) :
              /\ Ordered(an_analysis[k].db_execution_time)
              /\ Ordered(an_analysis[k].total_time)
              /\ Ordered(an_analysis[k].operations_per_second)

\* An empty group followed by a group of three samples, not all alike:
\* one aggregate, whose mean lies strictly between min and max.
C17_Witness ==
    /\ an_analysis # NotAnalyzed
    /\ Len(an_results[1]) = 0
    /\ Len(an_results[2]) = 3
    /\ Len(an_analysis) = 1
    /\ an_analysis[1].iterations = 3
    /\ FGreater(an_analysis[1].db_execution_time.mean,
                an_analysis[1].db_execution_time.min)
    /\ FGreater(an_analysis[1].db_execution_time.max,
                an_analysis[1].db_execution_time.mean)

(***************************************************************************)
(* C21 - C22, C25, C30: sessions, the results list and the pool of         *)
(* /benchmark/concurrent                                                   *)
(***************************************************************************)
\* The sessions constructed by the workers of the request: all but db.
WorkerSessions == DOMAIN cc_sessions \ {RequestSession}

\* C21: in concurrent-workers mode every worker works on a session of its own:
\* no session has executed statements of two workers, the request-scoped
\* session has executed none, two started workers never hold the same
\* session, and once the workers are started the sessions opened by workers
\* number exactly `concurrency` (for concurrency >= 1).
C21_OneSessionPerWorker ==
    (cc_pc # "idle") =>
        /\ cc_sessions[RequestSession].used_by = {}
        /\ \A s \in DOMAIN cc_sessions :
              /\ Cardinality(cc_sessions[s].used_by) <= 1
              /\ \A w \in cc_sessions[s].used_by : cc_workers[w].task_db = s
        /\ \A w \in WorkerIds : Started(w) =>
              /\ cc_workers[w].task_db \in WorkerSessions
              /\ \A v \in WorkerIds :
                    (Started(v) /\ v # w) => cc_workers[v].task_db # cc_workers[w].task_db
        /\ (cc_concurrency >= 1 /\ cc_pc \in {"joining", "done", "failed"}) =>
              Cardinality(WorkerSessions) = cc_concurrency

\* C21 witness: a request with two workers is over and each worker has
\* executed statements on its session.
C21_Witness ==
    /\ cc_pc = "done"
    /\ cc_concurrency = 2
    /\ \A w \in range(2) :
          /\ cc_workers[w].iters >= 1
          /\ cc_sessions[cc_workers[w].task_db].used_by = {w}

\* The workers of the request whose thread has appended its count.
Completed == {w \in range(cc_concurrency) : cc_workers[w].st = "done"}
\* The workers whose record a step writes.
Written == {w \in WorkerIds : cc_workers'[w] # cc_workers[w]}

\* What C22 asks of every state of a sync request: the list holds one entry
\* per worker that completed, and their sum is the sum of those workers'
\* counts.
C22_State ==
    (cc_pc # "idle" /\ cc_subject = "sync") =>
        /\ Len(cc_results) = Cardinality(Completed)
        /\ sum(cc_results) = ReturnedUpTo(cc_concurrency)

\* What C22 asks of every step of a sync request: the list changes only by
\* one append, made by a worker that has run all its iterations, has closed
\* its session and has not appended before; no step writes the records of
\* two workers, and a worker's session is written only in a step of that
\* worker.
C22_Step ==
    (cc_pc # "idle" /\ cc_subject = "sync") =>
        /\ Cardinality(Written) <= 1
        /\ \A s \in WorkerSessions :
              (s \in DOMAIN cc_sessions' /\ cc_sessions'[s] # cc_sessions[s]) =>
                  Written = {w \in WorkerIds : cc_workers[w].task_db = s}
        /\ (cc_results' # cc_results) =>
              \E w \in range(cc_concurrency) :
                  /\ Written = {w}
                  /\ w \notin Completed
                  /\ cc_workers'[w].st = "done"
                  /\ ~(cc_workers[w].iters < SharePerTask(cc_count, cc_concurrency))
                  /\ ~cc_sessions[cc_workers[w].task_db].open
                  /\ cc_workers[w].conn = 0
                  /\ cc_results' = Append(cc_results, cc_workers[w].task_operations)

Failed == {w \in range(cc_concurrency) : cc_workers[w].st = "failed"}

\* C25: if any worker of a concurrent benchmark request fails with an
\* exception the request returns no success response: a success response
\* accounts for all `concurrency` workers, in the async and in the sync
\* subject.
C25_FailedWorkerFailsRequest ==
    (cc_response.status = 200 /\ cc_concurrency >= 1) =>
        /\ Failed = {}
        /\ Cardinality(Completed) = cc_concurrency

\* A request in the domain C30 speaks of has arrived.
Accepted == cc_pc # "idle" /\ cc_count >= 0 /\ cc_concurrency >= 1
\* The handler has returned its response or ended with the exception.
RequestOver == cc_pc \in {"done", "failed"}
\* Every worker has terminated and the pool has all its connections back.
Quiescent == (\A w \in range(cc_concurrency) : Terminated(w)) /\ checkedout = 0

\* What C30 asks of every state: a worker holds at most one pooled
\* connection, the pool never hands out more than it has, a worker that
\* waits for a connection holds none, and a worker that has left db_task
\* (returned, appended or failed) holds none.
C30_State ==
    /\ checkedout <= PoolCapacity
    /\ \A w \in WorkerIds :
          /\ cc_workers[w].conn <= 1
          /\ Waiting(w) => cc_workers[w].conn = 0
          /\ cc_workers[w].st \in {"none", "returned", "done", "failed"} =>
                cc_workers[w].conn = 0

Running == {q \in QueryNames : ep_queries[q] = "running"}

\* C24: in the parallel benchmark endpoints (async and sync) no two queries
\* of a batch that run concurrently execute on the same database session.
C24_NoSessionSharedInBatch ==
    ep_kind = "parallel" =>
        \A q1 \in Running, q2 \in Running :
            q1 # q2 => query_session(ep_subject, q1) # query_session(ep_subject, q2)

(***************************************************************************)
(* C26: two concurrent creates of the same username or sku                 *)
(***************************************************************************)
\* Both routers hold a create of kind op that has passed its existence
\* check and has not committed yet, and both carry the same key.
BothPassedCheck(op) ==
    /\ \A s \in Subjects : crud_pending[s].op = op
    /\ crud_pending["async"].f1 = crud_pending["sync"].f1

\* C26: under every interleaving of two concurrent create requests with the
\* same username (or the same sku) the existence check followed by insert
\* and commit lets at most one of them pass the check; the other is
\* answered with the 400 domain error, never with the constraint violation.
C26_CheckAndInsertAreAtomic ==
    /\ ~BothPassedCheck("create_user")
    /\ ~BothPassedCheck("create_product")
    /\ (crud_last.op \in {"create_user", "create_product"}
            /\ crud_last.collides = {} /\ ~crud_last.changed) =>
          crud_last.status = 400

(***************************************************************************)
(* C27, C28: the mixed benchmark without concurrent writers                *)
(***************************************************************************)
\* The iterations of kind `kind` the run has entered, as indices of mx_log.
Entered(kind) == {k \in 1 .. Len(mx_log) : mx_log[k].branch = kind}
\* The ids the run's create iterations were given.
CreatedUsers == {mx_log[k].user : k \in Entered("create")}
CreatedProducts == {mx_log[k].product : k \in Entered("create")}
\* The stored rows the run did not create: the rows that existed before it.
OriginalUsers == DOMAIN db_users \ CreatedUsers
OriginalProducts == DOMAIN db_products \ CreatedProducts
\* The delete iteration k has run its second half too.
BothHalves(k) == k < Len(mx_log) \/ mx_step = "user"

\* What C27 asks of every state: a delete iteration has removed the user and
\* the product of the create iteration three iterations before it; the
\* store holds at most one user and one product of the run; after a run
\* with count mod 4 = 0 it holds none.
C27_State ==
    /\ \A k \in Entered("delete") :
          /\ k - 3 \in Entered("create")
          /\ mx_log[k].user = mx_log[k - 3].user
          /\ mx_log[k].user \notin DOMAIN db_users
          /\ BothHalves(k) =>
                /\ mx_log[k].product = mx_log[k - 3].product
                /\ mx_log[k].product \notin DOMAIN db_products
    /\ Cardinality(DOMAIN db_users \cap CreatedUsers) <= 1
    /\ Cardinality(DOMAIN db_products \cap CreatedProducts) <= 1
    /\ (mx_pc = "done" /\ mx_count >= 0 /\ mx_count % 4 = 0) =>
          /\ DOMAIN db_users = OriginalUsers
          /\ DOMAIN db_products = OriginalProducts

\* What C27 asks of every step: the rows that existed before the run stay.
C27_Step ==
    /\ OriginalUsers' = OriginalUsers
    /\ OriginalProducts' = OriginalProducts
    /\ \A i \in OriginalUsers : db_users'[i] = db_users[i]
    /\ \A i \in OriginalProducts : db_products'[i] = db_products[i]

\* C27: a mixed benchmark run with no concurrent writers (new ids above all
\* stored ids) never deletes a row that existed before the run: each delete
\* iteration removes the user and product created in its 4-cycle, the store
\* ends with the original rows plus at most one user and one product of the
\* run, and with exactly the original ids when count mod 4 = 0.
C27_OnlyOwnRowsAreDeleted == []C27_State /\ [][C27_Step]_vars

\* C27 witness: the store held user 1 and product 1; a run with count = 8 has
\* returned, its two delete iterations removed the rows 2 and 3 it had
\* created, and the store holds user 1 and product 1 again.
C27_Witness ==
    /\ mx_pc = "done"
    /\ mx_count = 8
    /\ DOMAIN db_users = {1} /\ DOMAIN db_products = {1}
    /\ {mx_log[k].user : k \in Entered("delete")} = {2, 3}
    /\ {mx_log[k].product : k \in Entered("delete")} = {2, 3}

\* C28: a mixed benchmark run with no concurrent writers reports
\* operations = 2 * count for every count >= 0 and every initial store, the
\* empty one included: between iterations the counter stands at twice the
\* iterations run, because every update and delete iteration finds the user
\* and product its 4-cycle created.
C28_TwoOperationsPerIteration ==
    /\ (mx_pc = "done" /\ mx_count >= 0) =>
          /\ mx_response.status = 200
          /\ mx_response.operations = 2 * mx_count
    /\ (mx_pc = "running" /\ mx_step = "user") => mx_operations = 2 * mx_i
    /\ \A k \in Entered("update") \cup Entered("delete") :
          /\ mx_log[k].user # 0
          /\ BothHalves(k) => mx_log[k].product # 0

\* C28 witness: a run with count = 7 on an empty store has returned and
\* reports 14 operations.
C28_Witness ==
    /\ mx_pc = "done"
    /\ mx_count = 7
    /\ OriginalUsers = {} /\ OriginalProducts = {}
    /\ mx_response.operations = 14

(***************************************************************************)
(* C23: the sequential drivers                                             *)
(***************************************************************************)
\* The count the r-th request of a driver called with (counts, iterations)
\* is for: `iterations` requests per count, in the order of counts.
count_of_request(counts, iterations, r) == counts[((r - 1) \div iterations) + 1]

\* What C23 asks of every state of a driver: at most one request is in
\* flight; the requests issued are, in order, `iterations` requests per
\* count to the driver's endpoint; results[k] holds `iterations` samples,
\* all for counts[k], the j-th of them taken from the j-th request issued
\* for counts[k]; a driver that has returned has issued
\* Len(counts) * iterations requests and returns one list per count.
C23_State ==
    (dr_pc # "idle") =>
        /\ Cardinality(dr_in_flight) <= 1
        /\ dr_pc # "awaiting" => dr_in_flight = {}
        /\ Len(dr_sent) <= Len(dr_counts) * dr_iterations
        /\ \A r \in 1 .. Len(dr_sent) :
              /\ dr_sent[r].url = driver_url(dr_name)
              /\ dr_sent[r].count = count_of_request(dr_counts, dr_iterations, r)
        /\ Len(dr_results) <= Len(dr_counts)
        /\ \A k \in 1 .. Len(dr_results) :
              /\ Len(dr_results[k]) = dr_iterations
              /\ \A j \in 1 .. dr_iterations :
                    /\ dr_results[k][j].count = dr_counts[k]
                    /\ dr_results[k][j].request = (k - 1) * dr_iterations + j
        /\ dr_pc = "returned" =>
              /\ Len(dr_results) = Len(dr_counts)
              /\ Len(dr_sent) = Len(dr_counts) * dr_iterations

\* What C23 asks of every step: a request is issued only while none is in
\* flight, and the lists only grow at their end.
C23_Step ==
    /\ (Len(dr_sent') > Len(dr_sent)) =>
          /\ dr_in_flight = {}
          /\ dr_sent' = Append(dr_sent, dr_sent'[Len(dr_sent')])
    /\ (dr_pc # "idle" /\ dr_results' # dr_results) =>
          dr_results' = Append(dr_results, dr_count_results)

\* C23: the sequential drivers (run_async_tests, run_sync_tests and their
\* mixed variants) have at most one request in flight at any time, issue
\* exactly `iterations` requests per count in the order of `counts`, and
\* return results in which results[k] holds exactly `iterations` samples,
\* all for counts[k], in the order the requests were issued.
C23_DriversAreSequential == []C23_State /\ [][C23_Step]_vars

\* C23 witness: run_sync_mixed_tests(counts = [50, 10], iterations = 2) has
\* returned after four requests, with two samples for 50 and two for 10.
C23_Witness ==
    /\ dr_pc = "returned"
    /\ dr_name = "run_sync_mixed_tests"
    /\ dr_counts = <<50, 10>>
    /\ dr_iterations = 2
    /\ Len(dr_sent) = 4
    /\ Len(dr_results) = 2
    /\ dr_results[2][2].count = 10 /\ dr_results[2][2].request = 4

(***************************************************************************)
(* C29: the result maps of run_advanced_benchmarks                         *)
(***************************************************************************)
\* A value of a result map: the JSON of a 200 answer or an error marker.
ResultOrMarker(r) ==
    IF HasError(r) THEN r = ErrorMarker(r.error)
    ELSE r = Ok(r.operations_per_second)

\* The async and the sync map of a category have the same keys (per count,
\* and per concurrency level under each count for "concurrent"), and every
\* value is a result or an error marker.
SameKeys(c) ==
    LET a == adv_results[c]["async"]
        b == adv_results[c]["sync"]
    IN  /\ DictKeys(a) = DictKeys(b)
        /\ \A count \in DictKeys(a) :
              IF c = "concurrent"
              THEN /\ DictKeys(DictGet(a, count)) = DictKeys(DictGet(b, count))
                   /\ \A level \in DictKeys(DictGet(a, count)) :
                         /\ ResultOrMarker(DictGet(DictGet(a, count), level))
                         /\ ResultOrMarker(DictGet(DictGet(b, count), level))
              ELSE /\ ResultOrMarker(DictGet(a, count))
                   /\ ResultOrMarker(DictGet(b, count))

\* run_advanced_benchmarks has returned its results.
AdvancedReturned == adv_pc \in {"collected", "analyzed", "reported", "raised"}

\* C29: after run_advanced_benchmarks returns, for each category the async
\* and the sync result map have identical key sets, every entry being a
\* result or an error marker, whatever combination of the two subjects'
\* requests succeeded, returned a non-200 status or raised; every
\* configuration has its key, and analyze_advanced_results never looks up
\* a key that is missing on the sync side.
C29_ResultMapsHaveSameKeys ==
    /\ AdvancedReturned =>
          /\ \A c \in Categories : SameKeys(c)
          /\ \A i \in 1 .. Len(AdvancedConfigs), s \in Subjects :
                HasResult(AdvancedConfigs[i], s)
    /\ adv_pc \in {"analyzed", "reported", "raised"} => ~adv_analysis.raised

\* C29 witness: the parallel requests both succeeded, the async complex
\* request returned a non-200 status while the sync one succeeded, a
\* concurrent request raised, and the results have been analysed.
C29_Witness ==
    /\ adv_pc = "analyzed"
    /\ ~HasError(DictGet(adv_results["parallel"]["async"], test_counts[1]))
    /\ ~HasError(DictGet(adv_results["parallel"]["sync"], test_counts[1]))
    /\ DictGet(adv_results["complex"]["async"], test_counts[1]) = ErrorMarker("HTTP 500")
    /\ ~HasError(DictGet(adv_results["complex"]["sync"], test_counts[1]))
    /\ DictGet(DictGet(adv_results["concurrent"]["sync"], concurrent_counts[1]),
               concurrency_levels[1]) = ErrorMarker("ConnectionError")
====
